---- MODULE Spec2Model ----
(***************************************************************************)
(* The ATS keyword-match analyzer of functions/utils/ats_analyzer.py.      *)
(*                                                                         *)
(* A text is a sequence of one-character strings, so that lowercasing,     *)
(* the deletion of punctuation and tokenization act on characters as the   *)
(* Python code does.  A keyword is a sequence of characters too, and a     *)
(* keyword set is a set of such sequences.                                 *)
(***************************************************************************)
EXTENDS Integers, Sequences, FiniteSets, TLC

VARIABLES
  text,             \* extract_keywords: the argument of the call
  keywords,         \* extract_keywords: the returned set
  xpc,              \* extract_keywords: "call" before the call, "done" after
  document_text,    \* analyze: first argument
  job_description,  \* analyze: second argument
  hashSeed,         \* the process's string-hash seed, which fixes list(set) order
  result,           \* analyze: the returned dict
  pc,               \* analyzer: "new" before ATSAnalyzer(), "call" before analyze,
                    \* "done" once analyze has returned, "raised" once it has raised
  stopwords_present, \* the NLTK data directory holds the stopwords corpus
  punkt_present,    \* the NLTK data directory holds the punkt tokenizer
  missing_arg,      \* _generate_suggestions: the argument of the call
  suggested,        \* _generate_suggestions: the returned string
  spc,              \* _generate_suggestions: "call" before the call, "done" after
  stop_table,       \* concurrent calls: the stop-word corpus of the process
  instance,         \* concurrent calls: the attributes of the shared ATSAnalyzer
  seed_of_process,  \* concurrent calls: the process's string-hash seed
  call_args,        \* concurrent calls: the arguments of each call
  frames,           \* concurrent calls: job_keywords and doc_keywords of each frame
  call_pc,          \* concurrent calls: "call", "job_done", "doc_done" or "done"
  returned,         \* concurrent calls: the value each call returned
  request_url,      \* generate_application: request["job_ad_url"]
  resume_given,     \* generate_application: a resume file was passed
  resources_loaded, \* generate_application: the analyzer's NLTK resources are present
  flow_seed,        \* generate_application: the process's string-hash seed
  job_data,         \* generate_application: the dict scrape_job_ad returned
  response_text,    \* generate_application: response.text of the LLM call
  calls,            \* generate_application: the collaborators called, in order
  scrape_arg,       \* generate_application: the argument scrape_job_ad got
  analyze_args,     \* generate_application: the arguments analyze got
  flow_result,      \* generate_application: the returned dict
  flow_error,       \* generate_application: the exception that left it
  flow_pc,          \* generate_application: the statement reached
  environ,          \* Config: os.environ after load_dotenv, None for an unset variable
  root_handlers,    \* Config: the root logger already has a handler
  cfg,              \* Config: the attributes of the object, once constructed
  cfg_error,        \* Config: the exception that left Config()
  cfg_pc,           \* Config: "new", "done" or "raised"
  getenv_call,      \* get_env_var: the arguments of the call
  getenv_out,       \* get_env_var: the value returned or the exception raised
  getenv_pc,        \* get_env_var: "call" before the call, "done" after
  objs,             \* repr(Config): the attributes of the two Config objects
  reprs,            \* repr(Config): the string repr returned for each
  repr_pc,          \* repr(Config): "built" before repr is called, "shown" after
  more_doc,         \* two calls of analyze: document_text of the first call
  more_added,       \* two calls of analyze: the words added for the second call
  more_front,       \* two calls of analyze: the words are added before the text
  more_job,         \* two calls of analyze: job_description of both calls
  more_seed,        \* two calls of analyze: the process's string-hash seed
  more_results,     \* two calls of analyze: the dicts returned
  more_pc,          \* two calls of analyze: the calls made, 0 to 2
  req_method,       \* generate_application_http: req.method
  req_authorization,\* req.headers.get('Authorization'), NoneValue when absent
  verify_outcome,   \* what auth.verify_id_token does with a non-empty token
  req_requestData,  \* req.form.get('requestData'), NoneValue when absent
  flow_outcome,     \* what generate_application does for a well-formed request
  http_out,         \* the response returned, or the exception that escaped
  http_pc,          \* "request" before the handler ran, "done" after, "off"
  scout_inbox,      \* job_scout: the unread emails of each sender when the run starts
  scout_unread,     \* ids of the emails that are unread
  scout_sender,     \* index of `sender` in target_senders
  scout_emails,     \* `emails` of the current sender
  scout_email,      \* index of `email` in emails
  scout_opps,       \* `job_opportunities` of the current email
  scout_opp,        \* index of `opportunity` in job_opportunities
  processed_emails, \* the counter processed_emails
  events_created,   \* the counter events_created
  scout_calls,      \* the Gmail and Calendar calls awaited so far, with their outcome
  scout_return,     \* the dict job_scout returned
  scout_pc          \* "sender", "email", "opportunity", "done" or "off"

extractVars == <<text, keywords, xpc>>

analyzeVars ==
  <<document_text, job_description, hashSeed, result, pc, stopwords_present, punkt_present>>

suggestVars == <<missing_arg, suggested, spc>>

concVars == <<stop_table, instance, seed_of_process, call_args, frames, call_pc, returned>>

flowVars == <<request_url, resume_given, resources_loaded, flow_seed, job_data, response_text, calls, scrape_arg, analyze_args, flow_result, flow_error, flow_pc>>

configVars == <<environ, root_handlers, cfg, cfg_error, cfg_pc, getenv_call, getenv_out, getenv_pc>>

reprVars == <<objs, reprs, repr_pc>>

moreVars == <<more_doc, more_added, more_front, more_job, more_seed, more_results, more_pc>>

httpVars == <<req_method, req_authorization, verify_outcome, req_requestData, flow_outcome, http_out, http_pc>>

scoutVars == <<scout_inbox, scout_unread, scout_sender, scout_emails, scout_email, scout_opps, scout_opp, processed_emails, events_created, scout_calls, scout_return, scout_pc>>

vars == <<extractVars, analyzeVars, suggestVars, concVars, flowVars, configVars, reprVars, moreVars, httpVars, scoutVars>>

\* the variables of the components other than c do not change
UnchangedExcept(c) ==
  /\ IF c = "extract" THEN TRUE ELSE UNCHANGED extractVars
  /\ IF c = "analyze" THEN TRUE ELSE UNCHANGED analyzeVars
  /\ IF c = "suggest" THEN TRUE ELSE UNCHANGED suggestVars
  /\ IF c = "conc" THEN TRUE ELSE UNCHANGED concVars
  /\ IF c = "flow" THEN TRUE ELSE UNCHANGED flowVars
  /\ IF c = "config" THEN TRUE ELSE UNCHANGED configVars
  /\ IF c = "repr" THEN TRUE ELSE UNCHANGED reprVars
  /\ IF c = "more" THEN TRUE ELSE UNCHANGED moreVars
  /\ IF c = "http" THEN TRUE ELSE UNCHANGED httpVars
  /\ IF c = "scout" THEN TRUE ELSE UNCHANGED scoutVars

(***************************************************************************)
(* Bounds of the model.                                                    *)
(***************************************************************************)
MaxPieces == 3    \* pieces concatenated into an argument of extract_keywords
MaxTokens == 2    \* words of a short argument of analyze
MaxWords == 22    \* distinct generated keywords of a long argument of analyze
MaxSeed == 1      \* hash seeds 0..MaxSeed
MaxMissing == 12  \* entries of an argument of _generate_suggestions
MaxOffset == 4    \* first keyword of an argument of _generate_suggestions
NumCalls == 2     \* concurrent calls of analyze

(***************************************************************************)
(* Characters.  Python's \w (str pattern) is letters, digits and the       *)
(* underscore; \s is whitespace.  Everything else is punctuation.          *)
(***************************************************************************)
LowerSeq == <<"a","b","c","d","e","f","g","h","i","j","k","l","m","n","o","p","q","r","s","t","u","v","w","x","y","z">>
UpperSeq == <<"A","B","C","D","E","F","G","H","I","J","K","L","M","N","O","P","Q","R","S","T","U","V","W","X","Y","Z">>
LowerLetters == {LowerSeq[i] : i \in 1..Len(LowerSeq)}
UpperLetters == {UpperSeq[i] : i \in 1..Len(UpperSeq)}
DigitChars == {"0","1","2","3","4","5","6","7","8","9"}
SpaceChars == {" ", "\t", "\n"}

WordChars == LowerLetters \cup UpperLetters \cup DigitChars \cup {"_"}

IsWordChar(c) == c \in WordChars

IsSpaceChar(c) == c \in SpaceChars

\* str.lower() on one character
LowerOf == [c \in UpperLetters |-> LowerSeq[CHOOSE i \in 1..Len(UpperSeq) : UpperSeq[i] = c]]

LowerChar(c) == IF c \in UpperLetters THEN LowerOf[c] ELSE c

\* mutant of lower: the text is left in its case
lower_as_is(t) == t

\* text.lower()
lower(t) == [i \in 1..Len(t) |-> LowerChar(t[i])]

KeepChar(c) == IsWordChar(c) \/ IsSpaceChar(c)

\* mutant of re_sub: only the characters of a short list are deleted
re_sub_listed(t) == SelectSeq(t, LAMBDA c : c \notin {".", ",", "!", "?"})

\* mutant of re_sub: a space is put in place of each deleted character
re_sub_space(t) == [i \in 1..Len(t) |-> IF KeepChar(t[i]) THEN t[i] ELSE " "]

\* re.sub(r'[^\w\s]', '', t): every other character is deleted, nothing is
\* put in its place
re_sub(t) == SelectSeq(t, KeepChar)

(***************************************************************************)
(* stopwords.words('english'): the 179 entries of the NLTK English list.   *)
(***************************************************************************)
StopWords ==
  {
     <<"i">>, <<"m","e">>, <<"m","y">>, <<"m","y","s","e","l","f">>, <<"w","e">>,
     <<"o","u","r">>, <<"o","u","r","s">>, <<"o","u","r","s","e","l","v","e","s">>,
     <<"y","o","u">>, <<"y","o","u","'","r","e">>, <<"y","o","u","'","v","e">>,
     <<"y","o","u","'","l","l">>, <<"y","o","u","'","d">>, <<"y","o","u","r">>,
     <<"y","o","u","r","s">>, <<"y","o","u","r","s","e","l","f">>,
     <<"y","o","u","r","s","e","l","v","e","s">>, <<"h","e">>, <<"h","i","m">>, <<"h","i","s">>,
     <<"h","i","m","s","e","l","f">>, <<"s","h","e">>, <<"s","h","e","'","s">>, <<"h","e","r">>,
     <<"h","e","r","s">>, <<"h","e","r","s","e","l","f">>, <<"i","t">>, <<"i","t","'","s">>,
     <<"i","t","s">>, <<"i","t","s","e","l","f">>, <<"t","h","e","y">>, <<"t","h","e","m">>,
     <<"t","h","e","i","r">>, <<"t","h","e","i","r","s">>,
     <<"t","h","e","m","s","e","l","v","e","s">>, <<"w","h","a","t">>, <<"w","h","i","c","h">>,
     <<"w","h","o">>, <<"w","h","o","m">>, <<"t","h","i","s">>, <<"t","h","a","t">>,
     <<"t","h","a","t","'","l","l">>, <<"t","h","e","s","e">>, <<"t","h","o","s","e">>,
     <<"a","m">>, <<"i","s">>, <<"a","r","e">>, <<"w","a","s">>, <<"w","e","r","e">>,
     <<"b","e">>, <<"b","e","e","n">>, <<"b","e","i","n","g">>, <<"h","a","v","e">>,
     <<"h","a","s">>, <<"h","a","d">>, <<"h","a","v","i","n","g">>, <<"d","o">>,
     <<"d","o","e","s">>, <<"d","i","d">>, <<"d","o","i","n","g">>, <<"a">>, <<"a","n">>,
     <<"t","h","e">>, <<"a","n","d">>, <<"b","u","t">>, <<"i","f">>, <<"o","r">>,
     <<"b","e","c","a","u","s","e">>, <<"a","s">>, <<"u","n","t","i","l">>,
     <<"w","h","i","l","e">>, <<"o","f">>, <<"a","t">>, <<"b","y">>, <<"f","o","r">>,
     <<"w","i","t","h">>, <<"a","b","o","u","t">>, <<"a","g","a","i","n","s","t">>,
     <<"b","e","t","w","e","e","n">>, <<"i","n","t","o">>, <<"t","h","r","o","u","g","h">>,
     <<"d","u","r","i","n","g">>, <<"b","e","f","o","r","e">>, <<"a","f","t","e","r">>,
     <<"a","b","o","v","e">>, <<"b","e","l","o","w">>, <<"t","o">>, <<"f","r","o","m">>,
     <<"u","p">>, <<"d","o","w","n">>, <<"i","n">>, <<"o","u","t">>, <<"o","n">>,
     <<"o","f","f">>, <<"o","v","e","r">>, <<"u","n","d","e","r">>, <<"a","g","a","i","n">>,
     <<"f","u","r","t","h","e","r">>, <<"t","h","e","n">>, <<"o","n","c","e">>,
     <<"h","e","r","e">>, <<"t","h","e","r","e">>, <<"w","h","e","n">>, <<"w","h","e","r","e">>,
     <<"w","h","y">>, <<"h","o","w">>, <<"a","l","l">>, <<"a","n","y">>, <<"b","o","t","h">>,
     <<"e","a","c","h">>, <<"f","e","w">>, <<"m","o","r","e">>, <<"m","o","s","t">>,
     <<"o","t","h","e","r">>, <<"s","o","m","e">>, <<"s","u","c","h">>, <<"n","o">>,
     <<"n","o","r">>, <<"n","o","t">>, <<"o","n","l","y">>, <<"o","w","n">>,
     <<"s","a","m","e">>, <<"s","o">>, <<"t","h","a","n">>, <<"t","o","o">>,
     <<"v","e","r","y">>, <<"s">>, <<"t">>, <<"c","a","n">>, <<"w","i","l","l">>,
     <<"j","u","s","t">>, <<"d","o","n">>, <<"d","o","n","'","t">>, <<"s","h","o","u","l","d">>,
     <<"s","h","o","u","l","d","'","v","e">>, <<"n","o","w">>, <<"d">>, <<"l","l">>, <<"m">>,
     <<"o">>, <<"r","e">>, <<"v","e">>, <<"y">>, <<"a","i","n">>, <<"a","r","e","n">>,
     <<"a","r","e","n","'","t">>, <<"c","o","u","l","d","n">>,
     <<"c","o","u","l","d","n","'","t">>, <<"d","i","d","n">>, <<"d","i","d","n","'","t">>,
     <<"d","o","e","s","n">>, <<"d","o","e","s","n","'","t">>, <<"h","a","d","n">>,
     <<"h","a","d","n","'","t">>, <<"h","a","s","n">>, <<"h","a","s","n","'","t">>,
     <<"h","a","v","e","n">>, <<"h","a","v","e","n","'","t">>, <<"i","s","n">>,
     <<"i","s","n","'","t">>, <<"m","a">>, <<"m","i","g","h","t","n">>,
     <<"m","i","g","h","t","n","'","t">>, <<"m","u","s","t","n">>,
     <<"m","u","s","t","n","'","t">>, <<"n","e","e","d","n">>, <<"n","e","e","d","n","'","t">>,
     <<"s","h","a","n">>, <<"s","h","a","n","'","t">>, <<"s","h","o","u","l","d","n">>,
     <<"s","h","o","u","l","d","n","'","t">>, <<"w","a","s","n">>, <<"w","a","s","n","'","t">>,
     <<"w","e","r","e","n">>, <<"w","e","r","e","n","'","t">>, <<"w","o","n">>,
     <<"w","o","n","'","t">>, <<"w","o","u","l","d","n">>, <<"w","o","u","l","d","n","'","t">> }

(***************************************************************************)
(* word_tokenize on a text of word characters and whitespace only: the     *)
(* Treebank rules for punctuation, quotes and brackets match nothing, the  *)
(* text is split at whitespace, and a token the CONTRACTIONS2 table lists  *)
(* is split in two.  (CONTRACTIONS3 needs an apostrophe, which line 73 has *)
(* deleted.)                                                               *)
(***************************************************************************)
Contractions2 ==
  { <<<<"c","a","n">>, <<"n","o","t">>>>, <<<<"d">>, <<"'","y","e">>>>, <<<<"g","i","m">>, <<"m","e">>>>, <<<<"g","o","n">>, <<"n","a">>>>,
    <<<<"g","o","t">>, <<"t","a">>>>, <<<<"l","e","m">>, <<"m","e">>>>, <<<<"m","o","r","e">>, <<"'","n">>>>, <<<<"w","a","n">>, <<"n","a">>>> }

SplitWhitespace(t, cur) ==
  LET s == cur \o t
      starts == {i \in 1..Len(s) :
                   ~IsSpaceChar(s[i]) /\ (i = 1 \/ IsSpaceChar(s[i - 1]))}
      ends == {i \in 1..Len(s) :
                 ~IsSpaceChar(s[i]) /\ (i = Len(s) \/ IsSpaceChar(s[i + 1]))}
      nth(P, k) == CHOOSE i \in P : Cardinality({j \in P : j < i}) = k - 1
  IN [k \in 1..Cardinality(starts) |-> SubSeq(s, nth(starts, k), nth(ends, k))]

SplitContraction(tok) ==
  IF \E c \in Contractions2 : c[1] \o c[2] = tok
    THEN CHOOSE c \in Contractions2 : c[1] \o c[2] = tok
    ELSE <<tok>>

RECURSIVE Flatten(_)
Flatten(ss) == IF ss = <<>> THEN <<>> ELSE Head(ss) \o Flatten(Tail(ss))

word_tokenize(t) ==
  LET raw == SplitWhitespace(t, <<>>) IN
  Flatten([i \in 1..Len(raw) |-> SplitContraction(raw[i])])

\* len(word) > MinLen
MinLen == 2

\* mutant of KeywordFilter: only alphabetic tokens are kept (word.isalpha())
KeywordFilterAlpha(tokens, stop_words) ==
  {tokens[i] : i \in {j \in 1..Len(tokens) :
                        /\ tokens[j] \notin stop_words
                        /\ Len(tokens[j]) > MinLen
                        /\ \A n \in 1..Len(tokens[j]) : tokens[j][n] \in LowerLetters}}

\* mutant of KeywordFilter: the stop-word list is not consulted
KeywordFilterLength(tokens, stop_words) ==
  {tokens[i] : i \in {j \in 1..Len(tokens) : Len(tokens[j]) > MinLen}}

\* the set comprehension of line 75
KeywordFilter(tokens, stop_words) ==
  {tokens[i] : i \in {j \in 1..Len(tokens) :
                        tokens[j] \notin stop_words /\ Len(tokens[j]) > MinLen}}

\* ATSAnalyzer._extract_keywords
extract_keywords(t) ==
  LET stop_words == StopWords
      stripped == re_sub(lower(t))
      tokens == word_tokenize(stripped)
  IN KeywordFilter(tokens, stop_words)

(***************************************************************************)
(* Arguments of extract_keywords: every concatenation of at most MaxPieces *)
(* pieces, and the texts the specification names.                          *)
(***************************************************************************)
ExtractPieces ==
  { <<"t","h","e">>, <<"a","n","d">>, <<"t","o">>, <<"d","o","n","'","t">>, <<"d","a","t","a">>, <<"P","y","t","h","o","n">>, <<"2","0","2","4">>, <<"g","o","n","n","a">>,
    <<"_">>, <<",">>, <<"-">>, <<" ">> }

CommunityServicesText == <<"c","o","m","m","u","n","i","t","y","-","s","e","r","v","i","c","e","s">>
ShortStopText == <<"t","o"," ","o","f"," ","i","n"," ","a","t">>

PieceTexts ==
  {Flatten(ps) : ps \in UNION {[1..n -> ExtractPieces] : n \in 0..MaxPieces}}

ExtractTexts == PieceTexts \cup {CommunityServicesText, ShortStopText}

NoResult == [status |-> "none"]

(***************************************************************************)
(* A specification runs one component; the variables of the others rest.   *)
(***************************************************************************)
ExtractOff == text = <<>> /\ keywords = {} /\ xpc = "off"

AnalyzeOff ==
  /\ document_text = <<>>
  /\ job_description = <<>>
  /\ hashSeed = 0
  /\ result = NoResult
  /\ pc = "off"
  /\ stopwords_present = TRUE
  /\ punkt_present = TRUE

SuggestOff == missing_arg = <<>> /\ suggested = <<>> /\ spc = "off"

ConcOff ==
  /\ stop_table = {}
  /\ instance = <<>>
  /\ seed_of_process = 0
  /\ call_args = <<>>
  /\ frames = <<>>
  /\ call_pc = <<>>
  /\ returned = <<>>

FlowOff ==
  /\ request_url = <<>>
  /\ resume_given = FALSE
  /\ resources_loaded = TRUE
  /\ flow_seed = 0
  /\ job_data = <<>>
  /\ response_text = <<>>
  /\ calls = <<>>
  /\ scrape_arg = <<>>
  /\ analyze_args = <<>>
  /\ flow_result = NoResult
  /\ flow_error = "none"
  /\ flow_pc = "off"

ConfigOff ==
  /\ environ = <<>>
  /\ root_handlers = FALSE
  /\ cfg = NoResult
  /\ cfg_error = NoResult
  /\ cfg_pc = "off"
  /\ getenv_call = NoResult
  /\ getenv_out = NoResult
  /\ getenv_pc = "off"

ReprOff ==
  /\ objs = <<>>
  /\ reprs = <<>>
  /\ repr_pc = <<>>

MoreOff ==
  /\ more_doc = <<>>
  /\ more_added = <<>>
  /\ more_front = FALSE
  /\ more_job = <<>>
  /\ more_seed = 0
  /\ more_results = <<>>
  /\ more_pc = -1

HttpOff ==
  /\ req_method = ""
  /\ req_authorization = <<>>
  /\ verify_outcome = ""
  /\ req_requestData = <<>>
  /\ flow_outcome = ""
  /\ http_out = [status |-> 0, body |-> "", escaped |-> "", started |-> FALSE]
  /\ http_pc = "off"

ScoutOff ==
  /\ scout_inbox = <<>>
  /\ scout_unread = {}
  /\ scout_sender = 0
  /\ scout_emails = <<>>
  /\ scout_email = 0
  /\ scout_opps = <<>>
  /\ scout_opp = 0
  /\ processed_emails = 0
  /\ events_created = 0
  /\ scout_calls = <<>>
  /\ scout_return = [processedEmails |-> -1, eventsCreated |-> -1, status |-> <<>>]
  /\ scout_pc = "off"

OffExcept(c) ==
  /\ IF c = "extract" THEN TRUE ELSE ExtractOff
  /\ IF c = "analyze" THEN TRUE ELSE AnalyzeOff
  /\ IF c = "suggest" THEN TRUE ELSE SuggestOff
  /\ IF c = "conc" THEN TRUE ELSE ConcOff
  /\ IF c = "flow" THEN TRUE ELSE FlowOff
  /\ IF c = "config" THEN TRUE ELSE ConfigOff
  /\ IF c = "repr" THEN TRUE ELSE ReprOff
  /\ IF c = "more" THEN TRUE ELSE MoreOff
  /\ IF c = "http" THEN TRUE ELSE HttpOff
  /\ IF c = "scout" THEN TRUE ELSE ScoutOff

InitExtract ==
  /\ text \in ExtractTexts
  /\ keywords = {}
  /\ xpc = "call"
  /\ OffExcept("extract")

\* one call of _extract_keywords(text)
ExtractKeywords ==
  /\ xpc = "call"
  /\ keywords' = extract_keywords(text)
  /\ xpc' = "done"
  /\ UNCHANGED text
  /\ UnchangedExcept("extract")

NextExtract == ExtractKeywords

SpecExtract == InitExtract /\ [][NextExtract]_vars

(***************************************************************************)
(* list(s) of a set of strings.  CPython iterates a set in the order of    *)
(* its hash table, which the process's string-hash seed decides; the seed  *)
(* is fixed when the process starts.  list(S, seed) is one order of S per  *)
(* seed: the sorted order, reversed for an odd seed, rotated by the seed.  *)
(***************************************************************************)
CharSeq ==
  <<"0","1","2","3","4","5","6","7","8","9","_">> \o UpperSeq \o LowerSeq
    \o <<" ","\t","\n",",","-","'","#","*",".","!">>

CharRank(c) == CHOOSE i \in 1..Len(CharSeq) : CharSeq[i] = c

RECURSIVE Less(_, _)
Less(u, v) ==
  IF v = <<>> THEN FALSE
  ELSE IF u = <<>> THEN TRUE
  ELSE IF Head(u) = Head(v) THEN Less(Tail(u), Tail(v))
  ELSE CharRank(Head(u)) < CharRank(Head(v))

RECURSIVE Sorted(_)
Sorted(S) ==
  IF S = {} THEN <<>>
  ELSE LET m == CHOOSE x \in S : \A y \in S \ {x} : Less(x, y)
       IN <<m>> \o Sorted(S \ {m})

Reverse(s) == [i \in 1..Len(s) |-> s[Len(s) + 1 - i]]

Rotate(s, k) == [i \in 1..Len(s) |-> s[((i - 1 + k) % Len(s)) + 1]]

list(S, seed) ==
  IF S = {} THEN <<>>
  ELSE LET base == IF seed % 2 = 1 THEN Reverse(Sorted(S)) ELSE Sorted(S)
       IN Rotate(base, seed % Cardinality(S))

\* s[:n]
Slice(s, n) == SubSeq(s, 1, IF Len(s) < n THEN Len(s) ELSE n)

\* sep.join(items)
RECURSIVE join(_, _)
join(sep, items) ==
  IF items = <<>> THEN <<>>
  ELSE IF Len(items) = 1 THEN Head(items)
  ELSE Head(items) \o sep \o join(sep, Tail(items))

(***************************************************************************)
(* ATSAnalyzer._generate_suggestions                                       *)
(***************************************************************************)
MaxSuggested == 10

ExcellentMsg == <<"E","x","c","e","l","l","e","n","t"," ","k","e","y","w","o","r","d"," ","c",
    "o","v","e","r","a","g","e","!">>

ConsiderPrefix == <<"C","o","n","s","i","d","e","r"," ","i","n","c","o","r","p","o","r","a","t",
    "i","n","g"," ","t","h","e","s","e"," ","m","i","s","s","i","n","g"," ","k","e","y","w","o",
    "r","d","s",":"," ">>

\* mutant of generate_suggestions: the test of line 87 is missing
generate_suggestions_untested(missing_keywords) ==
  ConsiderPrefix \o join(<<",", " ">>, Slice(missing_keywords, MaxSuggested))

\* mutant of generate_suggestions: the [:10] slice is missing
generate_suggestions_all(missing_keywords) ==
  IF missing_keywords = <<>>
    THEN ExcellentMsg
    ELSE ConsiderPrefix \o join(<<",", " ">>, missing_keywords)

\* mutant of generate_suggestions: the last ten entries are named
generate_suggestions_last(missing_keywords) ==
  IF missing_keywords = <<>>
    THEN ExcellentMsg
    ELSE ConsiderPrefix
           \o join(<<",", " ">>,
                   SubSeq(missing_keywords,
                          IF Len(missing_keywords) > MaxSuggested
                            THEN Len(missing_keywords) - MaxSuggested + 1 ELSE 1,
                          Len(missing_keywords)))

generate_suggestions(missing_keywords) ==
  IF missing_keywords = <<>>
    THEN ExcellentMsg
    ELSE ConsiderPrefix \o join(<<",", " ">>, Slice(missing_keywords, MaxSuggested))

(***************************************************************************)
(* ATSAnalyzer.analyze.  keywordMatchPercent is held in tenths of a        *)
(* percent: 505 stands for 50.5.                                           *)
(***************************************************************************)
MaxListed == 20

CouldNotExtractMsg == <<"C","o","u","l","d"," ","n","o","t"," ","e","x","t","r","a","c","t"," ",
    "k","e","y","w","o","r","d","s"," ","f","r","o","m"," ","j","o","b"," ","d","e","s","c","r",
    "i","p","t","i","o","n",".">>

\* the dict of lines 41-46
ZeroKeywordResult ==
  [ keywordMatchPercent |-> 0,
    matchedKeywords |-> <<>>,
    missingKeywords |-> <<>>,
    suggestions |-> CouldNotExtractMsg ]

\* mutant of matched_set: no keyword counts as matched
matched_set_none(job_keywords, doc_keywords) == {}

\* mutant of matched_set: every keyword of either text counts as matched
matched_set_either(job_keywords, doc_keywords) == job_keywords \cup doc_keywords

\* line 48, before list()
matched_set(job_keywords, doc_keywords) == job_keywords \cap doc_keywords

\* mutant of missing_set: the document's keywords are not taken away
missing_set_all(job_keywords, doc_keywords) == job_keywords

\* line 49, before list()
missing_set(job_keywords, doc_keywords) == job_keywords \ doc_keywords

\* mutant of match_percent: the count is taken after the cut to 20 entries
match_percent_listed(matched_keywords, job_keywords) ==
  IF job_keywords # {}
    THEN <<Len(Slice(matched_keywords, MaxListed)) * 100, Cardinality(job_keywords)>>
    ELSE <<0, 1>>

\* an exception leaving analyze
Raised(exception) == [raised |-> exception]

\* line 51: the fraction <<numerator, denominator>> of the float; a fraction
\* of denominator 0 stands for the ZeroDivisionError of the division
match_percent(matched_keywords, job_keywords) ==
  IF job_keywords # {}
    THEN <<Len(matched_keywords) * 100, Cardinality(job_keywords)>>
    ELSE <<0, 1>>

\* round(x, 1), in tenths: to nearest, an exact half to the even tenth
round1(x) ==
  LET n == x[1] * 10
      q == n \div x[2]
      r == n % x[2]
  IN IF 2 * r > x[2] \/ (2 * r = x[2] /\ q % 2 = 1) THEN q + 1 ELSE q

\* mutant of AnalysisResult: the lists are returned uncut
AnalysisResultUncut(percent, matched_keywords, missing_keywords, suggestion) ==
  [ keywordMatchPercent |-> round1(percent),
    matchedKeywords |-> matched_keywords,
    missingKeywords |-> missing_keywords,
    suggestions |-> suggestion ]

\* the dict of lines 55-60
AnalysisResult(percent, matched_keywords, missing_keywords, suggestion) ==
  [ keywordMatchPercent |-> round1(percent),
    matchedKeywords |-> Slice(matched_keywords, MaxListed),
    missingKeywords |-> Slice(missing_keywords, MaxListed),
    suggestions |-> suggestion ]

\* mutant of analyze: the early return of lines 40-46 is missing
analyze_unguarded(doc, job, seed) ==
  LET job_keywords == extract_keywords(job)
      doc_keywords == extract_keywords(doc)
      matched_keywords == list(matched_set(job_keywords, doc_keywords), seed)
      missing_keywords == list(missing_set(job_keywords, doc_keywords), seed)
      percent == match_percent(matched_keywords, job_keywords)
      suggestion == generate_suggestions(missing_keywords)
  IN AnalysisResult(percent, matched_keywords, missing_keywords, suggestion)

\* lines 40-60, from the two keyword sets of lines 37-38
analyze_keywords(job_keywords, doc_keywords, seed) ==
  IF job_keywords = {}
    THEN ZeroKeywordResult
    ELSE LET matched_keywords == list(matched_set(job_keywords, doc_keywords), seed)
             missing_keywords == list(missing_set(job_keywords, doc_keywords), seed)
             percent == match_percent(matched_keywords, job_keywords)
             suggestion == generate_suggestions(missing_keywords)
         IN IF percent[2] = 0
              THEN Raised("ZeroDivisionError")
              ELSE AnalysisResult(percent, matched_keywords, missing_keywords, suggestion)

\* ATSAnalyzer.analyze
analyze(doc, job, seed) ==
  analyze_keywords(extract_keywords(job), extract_keywords(doc), seed)

\* lines 72 and 74: stopwords.words and word_tokenize raise LookupError when
\* their resource is not in the NLTK data directory, whatever the text is
resource_error(have_stopwords, have_punkt) == ~have_stopwords \/ ~have_punkt

(***************************************************************************)
(* Arguments of analyze: short texts of at most MaxTokens words, the two   *)
(* texts of the specification's first scenario, and long texts of n        *)
(* distinct keywords, n up to MaxWords, for the 20-entry truncation.       *)
(***************************************************************************)
AnalyzeWords ==
  { <<"t","h","e">>, <<"d","a","t","a">>, <<"D","a","t","a",",">>, <<"s","q","l">> }

ShortTexts ==
  {join(<<" ">>, ws) : ws \in UNION {[1..n -> AnalyzeWords] : n \in 0..MaxTokens}}

Scenario1Job == <<"E","x","p","e","r","i","e","n","c","e"," ","w","i","t","h"," ","P","y","t",
    "h","o","n"," ","p","r","o","g","r","a","m","m","i","n","g"," ","a","n","d"," ","d","a","t",
    "a"," ","a","n","a","l","y","s","i","s"," ","r","e","q","u","i","r","e","d">>

Scenario1Doc == <<"I"," ","h","a","v","e"," ","s","t","r","o","n","g"," ","P","y","t","h","o",
    "n"," ","p","r","o","g","r","a","m","m","i","n","g"," ","e","x","p","e","r","i","e","n","c",
    "e",".">>

Word(i) == <<"k", LowerSeq[(i \div 5) + 1], LowerSeq[(i % 5) + 1]>>

RangeText(n) == join(<<" ">>, [i \in 1..n |-> Word(i)])

RangeSizes == {1, 16} \cup (MaxListed..MaxWords)

\* a text of punctuation only, and a text without a letter
PunctuationText == <<"-","-"," ","#"," ","!","*",".">>

NumericText == <<"2","0","2","4"," ","4","2",",","7">>

AnalyzeTexts ==
  ShortTexts \cup {Scenario1Job, Scenario1Doc, PunctuationText, NumericText}
    \cup {RangeText(n) : n \in RangeSizes}

Init ==
  /\ document_text \in AnalyzeTexts
  /\ job_description \in AnalyzeTexts
  /\ hashSeed \in 0..MaxSeed
  /\ result = NoResult
  /\ pc = "call"
  /\ stopwords_present = TRUE
  /\ punkt_present = TRUE
  /\ OffExcept("analyze")

\* one call of ats_analyzer.analyze(document_text, job_description)
Analyze ==
  /\ pc = "call"
  /\ LET outcome == IF resource_error(stopwords_present, punkt_present)
                      THEN Raised("LookupError")
                      ELSE analyze(document_text, job_description, hashSeed)
     IN /\ result' = outcome
        /\ pc' = IF "raised" \in DOMAIN outcome THEN "raised" ELSE "done"
  /\ UNCHANGED <<document_text, job_description, hashSeed, stopwords_present, punkt_present>>
  /\ UnchangedExcept("analyze")

Next == Analyze

Spec == Init /\ [][Next]_vars

(***************************************************************************)
(* ATSAnalyzer.__init__ and the first call of analyze, from any content of *)
(* the NLTK data directory.  nltk.download returns False when it cannot    *)
(* fetch a package; it does not raise.                                     *)
(***************************************************************************)
InitNew ==
  /\ document_text \in ShortTexts
  /\ job_description \in ShortTexts
  /\ hashSeed \in 0..MaxSeed
  /\ result = NoResult
  /\ pc = "new"
  /\ stopwords_present \in BOOLEAN
  /\ punkt_present \in BOOLEAN
  /\ OffExcept("analyze")

\* ATSAnalyzer(): lines 20-24
Construct ==
  /\ pc = "new"
  /\ IF stopwords_present
       THEN UNCHANGED <<stopwords_present, punkt_present>>
       ELSE \E fetched_stopwords, fetched_punkt \in BOOLEAN :
              /\ stopwords_present' = fetched_stopwords
              /\ punkt_present' = (punkt_present \/ fetched_punkt)
  /\ pc' = "call"
  /\ UNCHANGED <<document_text, job_description, hashSeed, result>>
  /\ UnchangedExcept("analyze")

NextNew == Construct \/ Analyze

SpecNew == InitNew /\ [][NextNew]_vars

(***************************************************************************)
(* Arguments of _generate_suggestions: lists of n distinct keywords, n up  *)
(* to MaxMissing, in ascending and in descending order.                    *)
(***************************************************************************)
SuggestLists ==
  LET up == {[i \in 1..n |-> Word(o + i)] : n \in 0..MaxMissing, o \in 0..MaxOffset}
  IN up \cup {Reverse(l) : l \in up}

InitSuggest ==
  /\ missing_arg \in SuggestLists
  /\ suggested = <<>>
  /\ spc = "call"
  /\ OffExcept("suggest")

\* one call of _generate_suggestions(missing_arg)
GenerateSuggestions ==
  /\ spc = "call"
  /\ suggested' = generate_suggestions(missing_arg)
  /\ spc' = "done"
  /\ UNCHANGED missing_arg
  /\ UnchangedExcept("suggest")

NextSuggest == GenerateSuggestions

SpecSuggest == InitSuggest /\ [][NextSuggest]_vars

(***************************************************************************)
(* Concurrent calls of analyze on the one ATSAnalyzer of the process.  A    *)
(* call is three steps: line 37, line 38, lines 40-60.  Each call has a    *)
(* frame of its own for job_keywords and doc_keywords; the stop-word       *)
(* corpus and the instance are shared.                                     *)
(***************************************************************************)
Calls == 1..NumCalls

\* the (document, job description) pairs the calls are made with
ConcArgs ==
  {[doc |-> d, job |-> j] :
     d \in {<<>>, Scenario1Doc, RangeText(2)}, j \in {Scenario1Job, RangeText(3)}}
    \cup {[doc |-> Scenario1Doc, job |-> PunctuationText]}

EmptyFrame == [job_keywords |-> {}, doc_keywords |-> {}]

\* mutant of frame_of: the keyword sets are kept on the shared instance
frame_shared(call) == 1

\* the frame that holds the local variables of a call
frame_of(call) == call

\* _extract_keywords, with the stop words read from the process's corpus
extract_keywords_from(t, corpus) == KeywordFilter(word_tokenize(re_sub(lower(t))), corpus)

InitConc ==
  /\ stop_table = StopWords
  /\ instance = <<>>
  /\ seed_of_process \in 0..MaxSeed
  /\ call_args \in [Calls -> ConcArgs]
  /\ frames = [c \in Calls |-> EmptyFrame]
  /\ call_pc = [c \in Calls |-> "call"]
  /\ returned = [c \in Calls |-> NoResult]
  /\ OffExcept("conc")

\* line 37
ExtractJob(c) ==
  /\ call_pc[c] = "call"
  /\ frames' = [frames EXCEPT ![frame_of(c)].job_keywords =
                  extract_keywords_from(call_args[c].job, stop_table)]
  /\ call_pc' = [call_pc EXCEPT ![c] = "job_done"]
  /\ UNCHANGED <<stop_table, instance, seed_of_process, call_args, returned>>
  /\ UnchangedExcept("conc")

\* line 38
ExtractDoc(c) ==
  /\ call_pc[c] = "job_done"
  /\ frames' = [frames EXCEPT ![frame_of(c)].doc_keywords =
                  extract_keywords_from(call_args[c].doc, stop_table)]
  /\ call_pc' = [call_pc EXCEPT ![c] = "doc_done"]
  /\ UNCHANGED <<stop_table, instance, seed_of_process, call_args, returned>>
  /\ UnchangedExcept("conc")

\* lines 40-60
Return(c) ==
  /\ call_pc[c] = "doc_done"
  /\ returned' = [returned EXCEPT ![c] =
                    analyze_keywords(frames[frame_of(c)].job_keywords,
                                     frames[frame_of(c)].doc_keywords, seed_of_process)]
  /\ call_pc' = [call_pc EXCEPT ![c] = "done"]
  /\ UNCHANGED <<stop_table, instance, seed_of_process, call_args, frames>>
  /\ UnchangedExcept("conc")

NextConc == \E c \in Calls : ExtractJob(c) \/ ExtractDoc(c) \/ Return(c)

SpecConc == InitConc /\ [][NextConc]_vars

(***************************************************************************)
(* generate_application (main.py, lines 83-165).  Every await is a step;   *)
(* a collaborator returns a value or raises.  Python's None is the         *)
(* one-entry sequence NoneValue, which no text equals.                     *)
(***************************************************************************)
NoneValue == <<"None">>

\* dict.get(key, default)
dict_get(d, key, default) == IF key \in DOMAIN d THEN d[key] ELSE default

\* mutant of falsy: only None counts as false
falsy_none(v) == v = NoneValue

\* mutant of falsy: every value counts as true
falsy_never(v) == FALSE

\* "not v" for a string or None
falsy(v) == v = NoneValue \/ v = <<>>

\* str.replace(ch, '') for a one-character ch
replace(s, ch) == SelectSeq(s, LAMBDA c : c # ch)

\* str.strip()
RECURSIVE lstrip(_)
lstrip(s) == IF s # <<>> /\ IsSpaceChar(Head(s)) THEN lstrip(Tail(s)) ELSE s

strip(s) == Reverse(lstrip(Reverse(lstrip(s))))

startswith(s, prefix) == Len(s) >= Len(prefix) /\ SubSeq(s, 1, Len(prefix)) = prefix

\* texts the LLM call returns: markdown, nothing, the JSON of a GenerationOutput,
\* JSON without the required fields (the reply of the test's mock), text that
\* opens a brace and is not JSON, the same after a blank
PlainResponse == <<"#"," ","D","a","t","a"," ","*","s","q","l","*"," ","p","y","t","h","o","n">>

EmptyResponse == <<>>

JsonMarkdown == <<"#","#"," ","P","y","t","h","o","n"," ","a","n","d"," ","*","d","a","t","a","*">>

JsonResponse == <<"{","\"","d","o","c","u","m","e","n","t","_","t","y","p","e","\"",":"," ","\"",
    "r","e","s","u","m","e","\"",","," ","\"","m","a","r","k","d","o","w","n","_","c","o","n","t",
    "e","n","t","\"",":"," ","\"","#","#"," ","P","y","t","h","o","n"," ","a","n","d"," ","*","d",
    "a","t","a","*","\"",","," ","\"","k","e","y","_","a","c","h","i","e","v","e","m","e","n","t",
    "s","\"",":"," ","[","]",","," ","\"","k","e","y","w","o","r","d","s","_","u","s","e","d",
    "\"",":"," ","[","]","}">>

IncompleteJsonResponse == <<"{","\"","d","o","c","u","m","e","n","t","_","t","y","p","e","\"",":",
    " ","\"","r","e","s","u","m","e","\"",","," ","\"","m","a","r","k","d","o","w","n","_","c",
    "o","n","t","e","n","t","\"",":"," ","\"","T","e","s","t"," ","r","e","s","u","m","e"," ","c",
    "o","n","t","e","n","t","\"","}">>

BrokenJsonResponse == <<"{","#"," ","d","a","t","a">>

PaddedBrokenResponse == <<" ","{","*","s","q","l","*">>

\* the texts the LLM call returns in the model
ResponseTexts ==
  {PlainResponse, EmptyResponse, JsonResponse, IncompleteJsonResponse, BrokenJsonResponse,
   PaddedBrokenResponse}

\* json.loads followed by GenerationOutput(**parsed_data) (lines 242-243) on
\* the texts of ResponseTexts that start with a brace
json_validated(response) ==
  IF response = JsonResponse THEN [markdown_content |-> JsonMarkdown]
  ELSE IF response = IncompleteJsonResponse THEN [raised |-> "ValidationError"]
  ELSE [raised |-> "JSONDecodeError"]

\* mutant of plain_text: only the heading marks are removed
plain_text_headings(markdown) == replace(markdown, "#")

\* .replace('#', '').replace('*', '') of lines 246, 252 and 258
plain_text(markdown) == replace(replace(markdown, "#"), "*")

\* _parse_generation_response
parse_generation_response(response) ==
  IF startswith(strip(response), <<"{">>)
    THEN LET validated_data == json_validated(response)
         IN IF "raised" \in DOMAIN validated_data
              THEN [markdown |-> response, document_text |-> plain_text(response)]
              ELSE [markdown |-> validated_data.markdown_content,
                    document_text |-> plain_text(validated_data.markdown_content)]
    ELSE [markdown |-> response, document_text |-> plain_text(response)]

\* the values of request["job_ad_url"]
Urls == {<<"h","t","t","p","s",":","/","/","a","/","1">>, <<"h","t","t","p","s",":","/","/","b","/","2">>}

\* the dicts scrape_job_ad returns in the model
JobDatas ==
  LET full == [company_name |-> <<"A","c","m","e">>, job_description |-> <<"P","y","t","h","o","n"," ","d","a","t","a"," ","s","q","l">>,
               selection_criteria |-> <<"d","a","t","a"," ","a","n","a","l","y","s","i","s">>]
  IN {full,
      [company_name |-> <<"A","c","m","e">>, job_description |-> <<"P","y","t","h","o","n"," ","d","a","t","a"," ","s","q","l">>],
      [company_name |-> <<"A","c","m","e">>, job_description |-> <<>>, selection_criteria |-> <<>>],
      [company_name |-> <<"A","c","m","e">>, selection_criteria |-> <<"d","a","t","a"," ","a","n","a","l","y","s","i","s">>],
      [company_name |-> <<>>, job_description |-> <<"P","y","t","h","o","n"," ","d","a","t","a"," ","s","q","l">>, selection_criteria |-> <<"d","a","t","a"," ","a","n","a","l","y","s","i","s">>],
      [company_name |-> NoneValue, job_description |-> <<"P","y","t","h","o","n"," ","d","a","t","a"," ","s","q","l">>],
      [job_description |-> <<"P","y","t","h","o","n"," ","d","a","t","a"," ","s","q","l">>, selection_criteria |-> <<"d","a","t","a"," ","a","n","a","l","y","s","i","s">>]}

\* mutant of flow_return: the analysis is cut down to its percentage
flow_return_percent(generated_content, ats_analysis) ==
  [generatedMarkdown |-> generated_content.markdown,
   atsAnalysis |-> [keywordMatchPercent |-> ats_analysis.keywordMatchPercent]]

\* lines 158-161
flow_return(generated_content, ats_analysis) ==
  [generatedMarkdown |-> generated_content.markdown, atsAnalysis |-> ats_analysis]

\* the exception leaves the flow: lines 163-165 print it and raise it again
FlowRaise(exception) ==
  /\ flow_error' = exception
  /\ flow_pc' = "raised"

InitFlow ==
  /\ request_url \in Urls
  /\ resume_given \in BOOLEAN
  /\ resources_loaded \in BOOLEAN
  /\ flow_seed \in 0..MaxSeed
  /\ job_data = <<>>
  /\ response_text = <<>>
  /\ calls = <<>>
  /\ scrape_arg = <<>>
  /\ analyze_args = <<>>
  /\ flow_result = NoResult
  /\ flow_error = "none"
  /\ flow_pc = "start"
  /\ OffExcept("flow")

\* lines 110-111: process_resume (lines 284-319) extracts the text, calls the
\* LLM, validates its JSON and saves the profile
ProcessResume ==
  /\ flow_pc = "start"
  /\ resume_given
  /\ \E outcome \in {"ok", "extract_raises", "generate_raises", "json_raises",
                      "update_raises"} :
       /\ calls' = calls \o
            (IF outcome = "extract_raises" THEN <<>>
             ELSE IF outcome \in {"generate_raises", "json_raises"} THEN <<"generate">>
             ELSE <<"generate", "update_user_profile">>)
       /\ IF outcome = "ok"
            THEN flow_pc' = "profile" /\ UNCHANGED flow_error
            ELSE FlowRaise("Exception")
  /\ UNCHANGED <<request_url, resume_given, resources_loaded, flow_seed, job_data,
                 response_text, scrape_arg, analyze_args, flow_result>>
  /\ UnchangedExcept("flow")

\* lines 112-114
GetUserProfile ==
  /\ flow_pc = "start"
  /\ ~resume_given
  /\ calls' = Append(calls, "get_user_profile")
  /\ \E returns \in BOOLEAN :
       IF returns
         THEN flow_pc' = "profile" /\ UNCHANGED flow_error
         ELSE FlowRaise("Exception")
  /\ UNCHANGED <<request_url, resume_given, resources_loaded, flow_seed, job_data,
                 response_text, scrape_arg, analyze_args, flow_result>>
  /\ UnchangedExcept("flow")

\* line 117
ScrapeJobAd ==
  /\ flow_pc = "profile"
  /\ calls' = Append(calls, "scrape_job_ad")
  /\ scrape_arg' = request_url
  /\ \/ \E scraped \in JobDatas :
          /\ job_data' = scraped
          /\ flow_pc' = "scraped"
          /\ UNCHANGED flow_error
     \/ /\ FlowRaise("Exception")
        /\ UNCHANGED job_data
  /\ UNCHANGED <<request_url, resume_given, resources_loaded, flow_seed, response_text,
                 analyze_args, flow_result>>
  /\ UnchangedExcept("flow")

\* lines 120-123
GenerateDossier ==
  /\ flow_pc = "scraped"
  /\ LET company_name == dict_get(job_data, "company_name", NoneValue)
     IN IF falsy(company_name)
          THEN /\ FlowRaise("ValueError")
               /\ UNCHANGED calls
          ELSE /\ calls' = Append(calls, "generate_dossier")
               /\ \E returns \in BOOLEAN :
                    IF returns
                      THEN flow_pc' = "dossier" /\ UNCHANGED flow_error
                      ELSE FlowRaise("Exception")
  /\ UNCHANGED <<request_url, resume_given, resources_loaded, flow_seed, job_data,
                 response_text, scrape_arg, analyze_args, flow_result>>
  /\ UnchangedExcept("flow")

\* lines 126-148
Generate ==
  /\ flow_pc = "dossier"
  /\ calls' = Append(calls, "generate")
  /\ \/ \E returned_text \in ResponseTexts :
          /\ response_text' = returned_text
          /\ flow_pc' = "generated"
          /\ UNCHANGED flow_error
     \/ /\ FlowRaise("Exception")
        /\ UNCHANGED response_text
  /\ UNCHANGED <<request_url, resume_given, resources_loaded, flow_seed, job_data,
                 scrape_arg, analyze_args, flow_result>>
  /\ UnchangedExcept("flow")

\* lines 150-161
AtsAnalysis ==
  /\ flow_pc = "generated"
  /\ LET generated_content == parse_generation_response(response_text)
     IN IF "job_description" \notin DOMAIN job_data
          THEN /\ FlowRaise("KeyError")
               /\ UNCHANGED <<calls, analyze_args, flow_result>>
          ELSE LET job_text == job_data["job_description"] \o <<" ">>
                                 \o dict_get(job_data, "selection_criteria", <<>>)
               IN /\ calls' = Append(calls, "analyze")
                  /\ analyze_args' = [document_text |-> generated_content.document_text,
                                      job_description |-> job_text]
                  /\ IF resource_error(resources_loaded, resources_loaded)
                       THEN /\ FlowRaise("LookupError")
                            /\ UNCHANGED flow_result
                       ELSE /\ flow_result' =
                                 flow_return(generated_content,
                                   analyze(generated_content.document_text, job_text,
                                           flow_seed))
                            /\ flow_pc' = "returned"
                            /\ UNCHANGED flow_error
  /\ UNCHANGED <<request_url, resume_given, resources_loaded, flow_seed, job_data,
                 response_text, scrape_arg>>
  /\ UnchangedExcept("flow")

NextFlow ==
  \/ ProcessResume
  \/ GetUserProfile
  \/ ScrapeJobAd
  \/ GenerateDossier
  \/ Generate
  \/ AtsAnalysis

SpecFlow == InitFlow /\ [][NextFlow]_vars

(***************************************************************************)
(* src/config/config.py: get_env_var and Config.  The environment is a     *)
(* function from variable names to values, NoneValue for an unset one.     *)
(***************************************************************************)
\* names of the environment variables
FIREBASE_PROJECT_ID == <<"F","I","R","E","B","A","S","E","_","P","R","O","J","E","C","T","_","I",
    "D">>
GEMINI_API_KEY == <<"G","E","M","I","N","I","_","A","P","I","_","K","E","Y">>
PINECONE_API_KEY == <<"P","I","N","E","C","O","N","E","_","A","P","I","_","K","E","Y">>
PINECONE_ENVIRONMENT == <<"P","I","N","E","C","O","N","E","_","E","N","V","I","R","O","N","M","E",
    "N","T">>
LOG_LEVEL == <<"L","O","G","_","L","E","V","E","L">>

\* values of the environment variables in the model
ProjectA == <<"p","r","o","j","-","a">>
GeminiKeyA == <<"g","e","m","-","1">>
PineconeKeyA == <<"p","i","n","e","-","1">>
PineconeEnvA == <<"u","s","-","w","e","s","t","1","-","g","c","p">>
LevelDebug == <<"d","e","b","u","g">>
LevelBasicFormat == <<"b","a","s","i","c","_","f","o","r","m","a","t">>

\* texts of the code
LevelInfo == <<"I","N","F","O">>
PrimaryUser == <<"p","r","i","m","a","r","y","_","u","s","e","r">>
RequiredPrefix == <<"R","e","q","u","i","r","e","d"," ","e","n","v","i","r","o","n","m","e","n",
    "t"," ","v","a","r","i","a","b","l","e"," ","'">>
RequiredSuffix == <<"'"," ","i","s"," ","n","o","t"," ","s","e","t","."," ","P","l","e","a","s",
    "e"," ","s","e","t"," ","i","t"," ","i","n"," ","y","o","u","r"," ","e","n","v","i","r","o",
    "n","m","e","n","t"," ","o","r"," ",".","e","n","v"," ","f","i","l","e",".">>
UnknownLevelMessage == <<"U","n","k","n","o","w","n"," ","l","e","v","e","l",":"," ","'","%","(",
    "l","e","v","e","l","n","a","m","e",")","s",":","%","(","n","a","m","e",")","s",":","%","(",
    "m","e","s","s","a","g","e",")","s","'">>

EnvNames == {FIREBASE_PROJECT_ID, GEMINI_API_KEY, PINECONE_API_KEY, PINECONE_ENVIRONMENT, LOG_LEVEL}

\* the environments of the model
Environments ==
  {[n \in EnvNames |->
      IF n = FIREBASE_PROJECT_ID THEN f
      ELSE IF n = GEMINI_API_KEY THEN g
      ELSE IF n = PINECONE_API_KEY THEN p
      ELSE IF n = PINECONE_ENVIRONMENT THEN e
      ELSE l] :
     f \in {NoneValue, <<>>, ProjectA}, g \in {NoneValue, <<>>, GeminiKeyA},
     p \in {NoneValue, <<>>, PineconeKeyA}, e \in {NoneValue, PineconeEnvA},
     l \in {NoneValue, LevelDebug, LevelBasicFormat}}

\* os.getenv(var_name, default)
os_getenv(env, var_name, default) ==
  IF env[var_name] = NoneValue THEN default ELSE env[var_name]

\* the text of the ValueError of lines 31-32
RequiredMessage(var_name) == RequiredPrefix \o var_name \o RequiredSuffix

\* get_env_var (lines 10-33)
get_env_var(env, var_name, default, required) ==
  LET value == os_getenv(env, var_name, default)
  IN IF required /\ falsy(value)
       THEN [raised |-> "ValueError", message |-> RequiredMessage(var_name)]
       ELSE [value |-> value]

\* str.upper()
str_upper(s) ==
  [i \in 1..Len(s) |->
     IF s[i] \in LowerLetters
       THEN UpperSeq[CHOOSE k \in 1..Len(LowerSeq) : LowerSeq[k] = s[i]]
       ELSE s[i]]

\* the upper-case names of the logging module whose value is a level number
LoggingLevels ==
  {<<"C","R","I","T","I","C","A","L">>, <<"F","A","T","A","L">>, <<"E","R","R","O","R">>, <<"W","A","R","N">>, <<"W","A","R","N","I","N","G">>, <<"I","N","F","O">>, <<"D","E","B","U","G">>, <<"N","O","T","S","E","T">>}

\* the upper-case names of the logging module whose value is a string
LoggingStrings == {<<"B","A","S","I","C","_","F","O","R","M","A","T">>}

\* _setup_logging (lines 99-116): getattr(logging, log_level, logging.INFO)
\* gives the attribute of that name whatever it is, and basicConfig sets the
\* level, which must be a number or a level name, only when the root logger
\* has no handler yet
setup_logging(env, has_handlers) ==
  LET log_level == str_upper(os_getenv(env, LOG_LEVEL, LevelInfo))
  IN IF log_level \in LoggingStrings /\ ~has_handlers
       THEN [raised |-> "ValueError", message |-> UnknownLevelMessage]
       ELSE [value |-> NoneValue]

\* Config.__init__ (lines 63-95) with the loaders of lines 118-166
Config_init(env, has_handlers) ==
  LET logging_set == setup_logging(env, has_handlers)
      firebase == get_env_var(env, FIREBASE_PROJECT_ID, NoneValue, TRUE)
      gemini == get_env_var(env, GEMINI_API_KEY, NoneValue, TRUE)
      pinecone == get_env_var(env, PINECONE_API_KEY, NoneValue, TRUE)
      pinecone_env == get_env_var(env, PINECONE_ENVIRONMENT, NoneValue, FALSE)
  IN IF "raised" \in DOMAIN logging_set THEN logging_set
     ELSE IF "raised" \in DOMAIN firebase THEN firebase
     ELSE IF "raised" \in DOMAIN gemini THEN gemini
     ELSE IF "raised" \in DOMAIN pinecone THEN pinecone
     ELSE [FIREBASE_PROJECT_ID |-> firebase.value,
           GEMINI_API_KEY |-> gemini.value,
           PINECONE_API_KEY |-> pinecone.value,
           PINECONE_ENVIRONMENT |-> pinecone_env.value,
           DEFAULT_USER_ID |-> PrimaryUser,
           LOG_LEVEL |-> str_upper(os_getenv(env, LOG_LEVEL, LevelInfo))]

\* the default arguments get_env_var is called with in the model
Defaults == {NoneValue, <<>>, LevelInfo}

InitConfig ==
  /\ environ \in Environments
  /\ root_handlers \in BOOLEAN
  /\ cfg = NoResult
  /\ cfg_error = NoResult
  /\ cfg_pc = "new"
  /\ getenv_call = NoResult
  /\ getenv_out = NoResult
  /\ getenv_pc = "call"
  /\ OffExcept("config")

\* config = Config() (line 196)
ConstructConfig ==
  /\ cfg_pc = "new"
  /\ LET outcome == Config_init(environ, root_handlers)
     IN IF "raised" \in DOMAIN outcome
          THEN cfg_error' = outcome /\ cfg_pc' = "raised" /\ UNCHANGED cfg
          ELSE cfg' = outcome /\ cfg_pc' = "done" /\ UNCHANGED cfg_error
  /\ UNCHANGED <<environ, root_handlers, getenv_call, getenv_out, getenv_pc>>
  /\ UnchangedExcept("config")

\* a call of get_env_var
GetEnvVar ==
  /\ getenv_pc = "call"
  /\ \E var_name \in EnvNames, default \in Defaults, required \in BOOLEAN :
       /\ getenv_call' = [var_name |-> var_name, default |-> default, required |-> required]
       /\ getenv_out' = get_env_var(environ, var_name, default, required)
  /\ getenv_pc' = "done"
  /\ UNCHANGED <<environ, root_handlers, cfg, cfg_error, cfg_pc>>
  /\ UnchangedExcept("config")

NextConfig == ConstructConfig \/ GetEnvVar

SpecConfig == InitConfig /\ [][NextConfig]_vars

(***************************************************************************)
(* Config.__repr__ (lines 172-191), on two Config objects.  An attribute   *)
(* of an object may be set to None after construction, as                  *)
(* test_config_repr_with_missing_keys does.                                *)
(***************************************************************************)
ConfigIds == {"a", "b"}

\* further values of the environment variables
ProjectB == <<"p","r","o","j","-","b">>
GeminiKeyB == <<"g","e","m","-","2">>
PineconeKeyB == <<"p","i","n","e","-","2">>

\* the fixed parts of the repr string
ReprOpen == <<"<","C","o","n","f","i","g"," ","{","'","F","I","R","E","B","A","S","E","_","P","R",
    "O","J","E","C","T","_","I","D","'",":"," ">>
ReprUser == <<","," ","'","D","E","F","A","U","L","T","_","U","S","E","R","_","I","D","'",":"," ">>
ReprLevel == <<","," ","'","L","O","G","_","L","E","V","E","L","'",":"," ">>
ReprGemini == <<","," ","'","G","E","M","I","N","I","_","A","P","I","_","K","E","Y","_","S","E",
    "T","'",":"," ">>
ReprPinecone == <<","," ","'","P","I","N","E","C","O","N","E","_","A","P","I","_","K","E","Y","_",
    "S","E","T","'",":"," ">>
ReprEnv == <<","," ","'","P","I","N","E","C","O","N","E","_","E","N","V","I","R","O","N","M","E",
    "N","T","'",":"," ">>
ReprClose == <<"}",">">>

\* the environments the two objects are constructed in
ReprEnvironments ==
  {[n \in EnvNames |->
      IF n = FIREBASE_PROJECT_ID THEN f
      ELSE IF n = GEMINI_API_KEY THEN g
      ELSE IF n = PINECONE_API_KEY THEN p
      ELSE IF n = PINECONE_ENVIRONMENT THEN e
      ELSE l] :
     f \in {ProjectA, ProjectB}, g \in {GeminiKeyA, GeminiKeyB},
     p \in {PineconeKeyA, PineconeKeyB}, e \in {NoneValue, PineconeEnvA},
     l \in {NoneValue, LevelDebug}}

\* repr() of a string without quotes or escapes, or of None
py_repr(v) == IF v = NoneValue THEN <<"N","o","n","e">> ELSE <<"'">> \o v \o <<"'">>

\* mutant of key_set: a key that is set is shown by its last character
key_set_hint(v) == IF falsy(v) THEN <<"N","o">> ELSE <<v[Len(v)]>>

\* 'Yes' if key else 'No' (lines 187-188)
key_set(v) == IF falsy(v) THEN <<"N","o">> ELSE <<"Y","e","s">>

\* Config.__repr__: the f-string of line 191 over the dict of lines 183-190
Config_repr(obj) ==
  ReprOpen \o py_repr(obj.FIREBASE_PROJECT_ID)
    \o ReprUser \o py_repr(obj.DEFAULT_USER_ID)
    \o ReprLevel \o py_repr(obj.LOG_LEVEL)
    \o ReprGemini \o py_repr(key_set(obj.GEMINI_API_KEY))
    \o ReprPinecone \o py_repr(key_set(obj.PINECONE_API_KEY))
    \o ReprEnv \o py_repr(obj.PINECONE_ENVIRONMENT)
    \o ReprClose

InitRepr ==
  /\ objs \in [ConfigIds -> {Config_init(e, TRUE) : e \in ReprEnvironments}]
  /\ reprs = [i \in ConfigIds |-> <<>>]
  /\ repr_pc = [i \in ConfigIds |-> "built"]
  /\ OffExcept("repr")

\* config.GEMINI_API_KEY = None, or the same of PINECONE_API_KEY
ClearKey(i) ==
  /\ repr_pc[i] = "built"
  /\ \/ objs[i].GEMINI_API_KEY # NoneValue
        /\ objs' = [objs EXCEPT ![i].GEMINI_API_KEY = NoneValue]
     \/ objs[i].PINECONE_API_KEY # NoneValue
        /\ objs' = [objs EXCEPT ![i].PINECONE_API_KEY = NoneValue]
  /\ UNCHANGED <<reprs, repr_pc>>
  /\ UnchangedExcept("repr")

\* repr(config)
Repr(i) ==
  /\ repr_pc[i] = "built"
  /\ reprs' = [reprs EXCEPT ![i] = Config_repr(objs[i])]
  /\ repr_pc' = [repr_pc EXCEPT ![i] = "shown"]
  /\ UNCHANGED objs
  /\ UnchangedExcept("repr")

NextRepr == \E i \in ConfigIds : ClearKey(i) \/ Repr(i)

SpecRepr == InitRepr /\ [][NextRepr]_vars

(***************************************************************************)
(* Two calls of analyze in one process with the same job description: the  *)
(* second document is the first with whitespace-separated words added      *)
(* before or after it.                                                     *)
(***************************************************************************)
MoreDocs == {<<>>, <<"s","q","l">>, <<"d","a","t","a">>, <<"t","h","e"," ","d","a","t","a">>, <<"d","a","t","a"," ","s","q","l">>, Scenario1Doc}

MoreJobs == {<<>>, <<"s","q","l">>, <<"d","a","t","a"," ","s","q","l">>, <<"D","a","t","a",","," ","t","h","e">>, Scenario1Job}

MoreWords == {<<"s","q","l">>, <<"d","a","t","a">>, <<"t","h","e">>, <<"s","q","l"," ","d","a","t","a">>, <<"p","y","t","h","o","n">>, <<"D","a","t","a",","," ","a","n","a","l","y","s","i","s">>}

\* the document of the second call
with_added(doc, added, front) ==
  IF front THEN added \o <<" ">> \o doc ELSE doc \o <<" ">> \o added

InitMore ==
  /\ more_doc \in MoreDocs
  /\ more_added \in MoreWords
  /\ more_front \in BOOLEAN
  /\ more_job \in MoreJobs
  /\ more_seed \in 0..MaxSeed
  /\ more_results = <<>>
  /\ more_pc = 0
  /\ OffExcept("more")

\* analyze(document_text, job_description)
AnalyzeFirst ==
  /\ more_pc = 0
  /\ more_results' = <<analyze(more_doc, more_job, more_seed)>>
  /\ more_pc' = 1
  /\ UNCHANGED <<more_doc, more_added, more_front, more_job, more_seed>>
  /\ UnchangedExcept("more")

\* analyze(document_text with the words added, job_description)
AnalyzeSecond ==
  /\ more_pc = 1
  /\ more_results' = Append(more_results,
                            analyze(with_added(more_doc, more_added, more_front),
                                    more_job, more_seed))
  /\ more_pc' = 2
  /\ UNCHANGED <<more_doc, more_added, more_front, more_job, more_seed>>
  /\ UnchangedExcept("more")

NextMore == AnalyzeFirst \/ AnalyzeSecond

SpecMore == InitMore /\ [][NextMore]_vars

(***************************************************************************)
(* Properties of analyze, stated of the state after the call.              *)
(***************************************************************************)
JobKeywords == extract_keywords(job_description)

DocKeywords == extract_keywords(document_text)

Elements(s) == {s[i] : i \in 1..Len(s)}

NoDuplicates(s) == \A i, j \in 1..Len(s) : s[i] = s[j] => i = j

Abs(n) == IF n < 0 THEN -n ELSE n

\* p tenths of a percent is 100 * m / n rounded to one decimal place: no
\* tenth is nearer to the quotient
IsRoundedPercent(p, m, n) == 2 * Abs(p * n - 1000 * m) <= n

\* C1: when the job description yields at least one keyword, keywordMatchPercent
\* is round(100 * |job keywords /\ document keywords| / |job keywords|, 1), the
\* cardinalities being those of the full sets, not of the truncated lists.
C1_PercentOfFullSets ==
  (pc = "done" /\ JobKeywords # {}) =>
    IsRoundedPercent(result.keywordMatchPercent,
                     Cardinality(JobKeywords \cap DocKeywords),
                     Cardinality(JobKeywords))

\* C1 witness: more than 20 keywords matched, and not all of them
C1_Witness ==
  /\ pc = "done"
  /\ Cardinality(JobKeywords \cap DocKeywords) > MaxListed
  /\ Cardinality(JobKeywords) > Cardinality(JobKeywords \cap DocKeywords)
  /\ result.keywordMatchPercent < 1000

ZeroGuardMessage == <<"C","o","u","l","d"," ","n","o","t"," ","e","x","t","r","a","c","t"," ",
      "k","e","y","w","o","r","d","s"," ","f","r","o","m"," ","j","o","b"," ","d","e","s","c",
      "r","i","p","t","i","o","n",".">>

\* C2: when the job description yields no keyword, analyze returns the record
\* keywordMatchPercent = 0, matchedKeywords = [], missingKeywords = [],
\* suggestions = "Could not extract keywords from job description.", whatever
\* the document is.
C2_ZeroKeywordGuard ==
  (pc = "done" /\ JobKeywords = {}) =>
    result = [ keywordMatchPercent |-> 0,
               matchedKeywords |-> <<>>,
               missingKeywords |-> <<>>,
               suggestions |-> ZeroGuardMessage ]

\* C2 witness: the empty job description, with a document that has keywords
C2_Witness ==
  /\ pc = "done"
  /\ job_description = <<>>
  /\ DocKeywords # {}
  /\ result.suggestions = ZeroGuardMessage

\* C3: every entry of matchedKeywords is a keyword of the job description and
\* of the document, every entry of missingKeywords is a keyword of the job
\* description and not of the document, and the two lists share no entry.
C3_ListsWithinSets ==
  pc = "done" =>
    /\ Elements(result.matchedKeywords) \subseteq JobKeywords \cap DocKeywords
    /\ Elements(result.missingKeywords) \subseteq JobKeywords \ DocKeywords
    /\ Elements(result.matchedKeywords) \cap Elements(result.missingKeywords) = {}

\* C3 witness: a result with matched and missing keywords, the document having
\* a keyword the job description lacks
C3_Witness ==
  /\ pc = "done"
  /\ result.matchedKeywords # <<>>
  /\ result.missingKeywords # <<>>
  /\ DocKeywords \ JobKeywords # {}

\* the list is the set cut to at most 20 entries
IsTruncationOf(listed, full) ==
  /\ Len(listed) <= 20
  /\ NoDuplicates(listed)
  /\ Cardinality(full) > 20 => Len(listed) = 20
  /\ Cardinality(full) <= 20 => full \subseteq Elements(listed)

\* C4: matchedKeywords and missingKeywords have at most 20 entries and no
\* duplicates; the list of a set of more than 20 members has exactly 20
\* entries, the list of a set of at most 20 members has them all.
C4_TruncationBound ==
  pc = "done" =>
    /\ IsTruncationOf(result.matchedKeywords, JobKeywords \cap DocKeywords)
    /\ IsTruncationOf(result.missingKeywords, JobKeywords \ DocKeywords)

\* C4 witness: more than 20 keywords missing, 20 of them listed
C4_Witness ==
  /\ pc = "done"
  /\ Cardinality(JobKeywords \ DocKeywords) > 20
  /\ Len(result.missingKeywords) = 20
  /\ result.matchedKeywords # <<>>

ExcellentCoverage == <<"E","x","c","e","l","l","e","n","t"," ","k","e","y","w","o","r","d"," ",
      "c","o","v","e","r","a","g","e","!">>

\* C5 as stated: whenever every keyword of the job description is a keyword of
\* the document, keywordMatchPercent is 100.0 and suggestions is "Excellent
\* keyword coverage!".  (Refuted: a job description without keywords satisfies
\* the condition and gets the zero-keyword record.)
C5_AsStated ==
  (pc = "done" /\ JobKeywords \subseteq DocKeywords) =>
    /\ result.keywordMatchPercent = 1000
    /\ result.suggestions = ExcellentCoverage

\* C5: whenever the job description yields at least one keyword and every one
\* of its keywords is a keyword of the document, keywordMatchPercent is 100.0
\* and suggestions is "Excellent keyword coverage!".
C5_PerfectCoverage ==
  (pc = "done" /\ JobKeywords # {} /\ JobKeywords \subseteq DocKeywords) =>
    /\ result.keywordMatchPercent = 1000
    /\ result.suggestions = ExcellentCoverage

\* C5 witness: full coverage by a document that has further keywords
C5_Witness ==
  /\ pc = "done"
  /\ JobKeywords # {}
  /\ JobKeywords \subseteq DocKeywords
  /\ DocKeywords # JobKeywords
  /\ result.suggestions = ExcellentCoverage

\* C6 as stated: for every non-empty text t, analyze(t, t) returns
\* keywordMatchPercent 100.0 and missingKeywords [].  (Refuted: a non-empty
\* text without keywords, such as "the", gets 0.)
C6_AsStated ==
  (pc = "done" /\ document_text = job_description /\ job_description # <<>>) =>
    /\ result.keywordMatchPercent = 1000
    /\ result.missingKeywords = <<>>

\* C6: for every text t that yields at least one keyword, analyze(t, t)
\* returns keywordMatchPercent 100.0 and missingKeywords [].
C6_IdenticalTexts ==
  (pc = "done" /\ document_text = job_description /\ JobKeywords # {}) =>
    /\ result.keywordMatchPercent = 1000
    /\ result.missingKeywords = <<>>

\* C6 witness: the document is the job description, which has keywords
C6_Witness ==
  /\ pc = "done"
  /\ document_text = job_description
  /\ JobKeywords # {}
  /\ result.keywordMatchPercent = 1000
  /\ result.matchedKeywords # <<>>

(***************************************************************************)
(* Properties of extract_keywords, stated of the state after the call.     *)
(***************************************************************************)
CommunityWord == <<"c","o","m","m","u","n","i","t","y">>

ServicesWord == <<"s","e","r","v","i","c","e","s">>

CommunityServicesWord == <<"c","o","m","m","u","n","i","t","y","s","e","r","v","i","c","e","s">>

NotHyphen(c) == c # "-"

\* C7 as stated: for "community-services" the result contains "community" and
\* "services" as two keywords and no joined token.  (Refuted: the hyphen is
\* deleted and nothing separates the two parts.)
C7_AsStated ==
  (xpc = "done" /\ text = CommunityServicesText) =>
    /\ CommunityWord \in keywords
    /\ ServicesWord \in keywords
    /\ CommunityServicesWord \notin keywords

\* C7: extract_keywords deletes every character that is not alphanumeric,
\* underscore or whitespace and puts nothing in its place, so the parts of a
\* hyphenated compound are joined into one token: the result for
\* "community-services" is {"communityservices"}, and the result for any text
\* is the result for that text without its hyphens.
C7_HyphenJoins ==
  xpc = "done" =>
    /\ text = CommunityServicesText => keywords = {CommunityServicesWord}
    /\ keywords = extract_keywords(SelectSeq(text, NotHyphen))

\* C7 witness: the call on "community-services" has returned
C7_Witness ==
  /\ xpc = "done"
  /\ text = CommunityServicesText
  /\ CommunityServicesWord \in keywords

\* a punctuation character: neither a word character (letter, digit,
\* underscore) nor whitespace
IsPunctuation(c) == ~IsWordChar(c) /\ ~IsSpaceChar(c)

IsStopWord(w) == lower(w) \in StopWords

\* t is a concatenation of stop-words, punctuation characters and whitespace
\* characters in which no stop-word directly follows another; after_word
\* tells that the piece before t is a stop-word
RECURSIVE ComposedOfStopWords(_, _)
ComposedOfStopWords(t, after_word) ==
  \/ t = <<>>
  \/ /\ IsPunctuation(Head(t)) \/ IsSpaceChar(Head(t))
     /\ ComposedOfStopWords(Tail(t), FALSE)
  \/ /\ ~after_word
     /\ \E k \in 1..Len(t) :
          /\ IsStopWord(SubSeq(t, 1, k))
          /\ ComposedOfStopWords(SubSeq(t, k + 1, Len(t)), TRUE)

\* C8 as stated: a text composed solely of stop-words, punctuation and
\* whitespace, in any arrangement, stop-words joined by punctuation without
\* whitespace included, has no keywords.  (Refuted: stop-words joined by
\* punctuation make one token that is no stop-word, and a stop-word written
\* with an apostrophe loses it before the list is consulted.)
C8_AsStated ==
  (xpc = "done" /\ ComposedOfStopWords(text, FALSE)) => keywords = {}

RECURSIVE DropLeading(_)
DropLeading(t) ==
  IF t # <<>> /\ ~IsWordChar(Head(t)) THEN DropLeading(Tail(t)) ELSE t

\* the chunk without the punctuation, other than underscores, before and
\* after it
Core(chunk) == Reverse(DropLeading(Reverse(DropLeading(chunk))))

OnlyLetters(w) == \A i \in 1..Len(w) : w[i] \in LowerLetters \cup UpperLetters

\* every whitespace-delimited chunk of t is a run of punctuation other than
\* the underscore, or one stop-word written without apostrophe with such runs
\* before and after it
StopWordsApart(t) ==
  LET chunks == SplitWhitespace(t, <<>>) IN
  \A i \in 1..Len(chunks) :
    \/ Core(chunks[i]) = <<>>
    \/ OnlyLetters(Core(chunks[i])) /\ IsStopWord(Core(chunks[i]))

\* C8: a text in which every whitespace-delimited chunk is either a run of
\* punctuation other than the underscore or a single apostrophe-free stop-word
\* with such punctuation before and after it has no keywords; extract_keywords
\* of "" and of "to of in at" is empty.
C8_StopWordsApart ==
  xpc = "done" =>
    /\ StopWordsApart(text) => keywords = {}
    /\ text \in {<<>>, ShortStopText} => keywords = {}

\* C8 witness: a text with a stop-word and with punctuation, and no keyword
C8_Witness ==
  /\ xpc = "done"
  /\ StopWordsApart(text)
  /\ \E i \in 1..Len(text) : IsPunctuation(text[i])
  /\ \E i \in 1..Len(text) : text[i] \in LowerLetters
  /\ keywords = {}

\* C9: every keyword extract_keywords returns is lowercase, is longer than 2
\* characters and is not in the English stop-word list.
C9_KeywordShape ==
  xpc = "done" =>
    \A k \in keywords :
      /\ \A i \in 1..Len(k) : k[i] \notin UpperLetters
      /\ Len(k) > 2
      /\ k \notin StopWords

\* C9 witness: a text with an upper-case letter of which a token is kept and a
\* token is dropped
C9_Witness ==
  /\ xpc = "done"
  /\ \E i \in 1..Len(text) : text[i] \in UpperLetters
  /\ keywords # {}
  /\ \E chunk \in Elements(SplitWhitespace(text, <<>>)) :
       lower(chunk) \in StopWords \/ Len(chunk) <= 2

\* C10 as stated: every keyword is non-empty and alphabetic-only, with no
\* digit, no underscore and no punctuation character.  (Refuted: digits and
\* underscores are word characters and are kept.)
C10_AsStated ==
  xpc = "done" =>
    \A k \in keywords :
      /\ k # <<>>
      /\ \A i \in 1..Len(k) : k[i] \in LowerLetters \cup UpperLetters

\* C10: every keyword is non-empty and made of word characters only (letters,
\* digits, underscores): it contains no whitespace and no punctuation
\* character other than the underscore.
C10_WordCharsOnly ==
  xpc = "done" =>
    \A k \in keywords :
      /\ k # <<>>
      /\ \A i \in 1..Len(k) :
           k[i] \in LowerLetters \cup UpperLetters \cup DigitChars \cup {"_"}

\* C10 witness: punctuation was deleted from the text, and a keyword with a
\* digit or an underscore is returned
C10_Witness ==
  /\ xpc = "done"
  /\ \E i \in 1..Len(text) : text[i] \in {",", "-", "'"}
  /\ \E k \in keywords : \E i \in 1..Len(k) : k[i] \in DigitChars \cup {"_"}

OnlyDigits(w) == \A i \in 1..Len(w) : w[i] \in DigitChars

\* C11: a whitespace-delimited token of the input that consists only of digits
\* and is longer than 2 characters is a member of the returned set.
C11_NumericTokensKept ==
  xpc = "done" =>
    \A chunk \in Elements(SplitWhitespace(text, <<>>)) :
      (OnlyDigits(chunk) /\ Len(chunk) > 2) => chunk \in keywords

\* C11 witness: the text has the token "2024" between other tokens, and it is
\* returned
C11_Witness ==
  /\ xpc = "done"
  /\ \E chunk \in Elements(SplitWhitespace(text, <<>>)) :
       OnlyDigits(chunk) /\ Len(chunk) > 2 /\ chunk \in keywords
  /\ Len(SplitWhitespace(text, <<>>)) > 1

\* str.upper() on an ASCII text
upper(t) ==
  [i \in 1..Len(t) |->
     IF t[i] \in LowerLetters
       THEN UpperSeq[CHOOSE n \in 1..Len(LowerSeq) : LowerSeq[n] = t[i]]
       ELSE t[i]]

SameAnalysis(r, s) ==
  /\ r.keywordMatchPercent = s.keywordMatchPercent
  /\ Elements(r.matchedKeywords) = Elements(s.matchedKeywords)
  /\ Elements(r.missingKeywords) = Elements(s.missingKeywords)

\* C12: extract_keywords(t) = extract_keywords(t.upper()) for the ASCII texts
\* t given to analyze, and analyze returns the same percentage and the same
\* matched and missing keywords when either argument is upper-cased.
C12_CaseInvariance ==
  pc = "done" =>
    /\ extract_keywords(upper(job_description)) = JobKeywords
    /\ extract_keywords(upper(document_text)) = DocKeywords
    /\ SameAnalysis(analyze(upper(document_text), job_description, hashSeed), result)
    /\ SameAnalysis(analyze(document_text, upper(job_description), hashSeed), result)

\* C12 witness: a keyword written with an upper-case letter in the document
\* and without one in the job description is matched
C12_Witness ==
  /\ pc = "done"
  /\ \E i \in 1..Len(document_text) : document_text[i] \in UpperLetters
  /\ \A i \in 1..Len(job_description) : job_description[i] \notin UpperLetters
  /\ upper(job_description) # job_description
  /\ result.matchedKeywords # <<>>

(***************************************************************************)
(* Properties of _generate_suggestions.                                    *)
(***************************************************************************)
ConsiderText == <<"C","o","n","s","i","d","e","r"," ","i","n","c","o","r","p","o","r","a","t",
      "i","n","g"," ","t","h","e","s","e"," ","m","i","s","s","i","n","g"," ","k","e","y","w",
      "o","r","d","s",":"," ">>

\* the pieces of s between the occurrences of ", "
RECURSIVE SplitCommaSpace(_, _)
SplitCommaSpace(s, cur) ==
  IF s = <<>> THEN <<cur>>
  ELSE IF Len(s) >= 2 /\ s[1] = "," /\ s[2] = " "
    THEN <<cur>> \o SplitCommaSpace(SubSeq(s, 3, Len(s)), <<>>)
  ELSE SplitCommaSpace(Tail(s), Append(cur, Head(s)))

\* C13: generate_suggestions returns "Excellent keyword coverage!" for the
\* empty list, and otherwise "Consider incorporating these missing keywords: "
\* followed by the first min(10, n) entries of the list, in order, joined by
\* ", ".
C13_Suggestions ==
  spc = "done" =>
    IF missing_arg = <<>>
      THEN suggested = ExcellentCoverage
      ELSE LET n == Len(missing_arg)
               k == IF n < 10 THEN n ELSE 10
               named == SubSeq(suggested, Len(ConsiderText) + 1, Len(suggested))
           IN /\ Len(suggested) > Len(ConsiderText)
              /\ SubSeq(suggested, 1, Len(ConsiderText)) = ConsiderText
              /\ SplitCommaSpace(named, <<>>) = SubSeq(missing_arg, 1, k)

\* C13 witness: a list of more than 10 entries, of which the eleventh is not
\* named
C13_Witness ==
  /\ spc = "done"
  /\ Len(missing_arg) > 10
  /\ Len(SplitCommaSpace(SubSeq(suggested, Len(ConsiderText) + 1, Len(suggested)),
                         <<>>)) = 10

\* the four fields of a result of analyze (lines 55-60)
ResultFields == {"keywordMatchPercent", "matchedKeywords", "missingKeywords", "suggestions"}

\* C14: analyze raises no exception for any pair of strings, and every call
\* returns either the zero-keyword result or a standard result
C14_AsStated ==
  /\ pc # "raised"
  /\ pc = "done" =>
       /\ DOMAIN result = ResultFields
       /\ (JobKeywords = {}) <=> (result = ZeroKeywordResult)

\* C15: keywordMatchPercent of every result lies in [0.0, 100.0] and is a
\* whole number of tenths
C15_PercentRange ==
  pc = "done" =>
    /\ result.keywordMatchPercent \in Int
    /\ result.keywordMatchPercent >= 0
    /\ result.keywordMatchPercent <= 1000

\* a result whose percentage is neither end of the range nor a whole percent
C15_Witness ==
  /\ pc = "done"
  /\ result.keywordMatchPercent % 10 # 0

\* C17: once ATSAnalyzer() has completed, the stop-word list and the
\* tokenizer resource are both available, and analyze never fails for the
\* lack of one
C17_AsStated ==
  /\ pc \in {"call", "done", "raised"} => (stopwords_present /\ punkt_present)
  /\ pc # "raised"

\* C16: under every interleaving each call returns what it returns alone on
\* the same arguments, and no call changes the stop-word corpus, the
\* instance or the keyword sets of another call
C16_Independent ==
  /\ stop_table = StopWords
  /\ instance = <<>>
  /\ \A c \in Calls :
       /\ call_pc[c] \in {"job_done", "doc_done"} =>
            frames[frame_of(c)].job_keywords = extract_keywords(call_args[c].job)
       /\ call_pc[c] = "doc_done" =>
            frames[frame_of(c)].doc_keywords = extract_keywords(call_args[c].doc)
       /\ call_pc[c] = "done" =>
            returned[c] = analyze(call_args[c].doc, call_args[c].job, seed_of_process)

\* a call has returned a standard result while another call, made with other
\* arguments, is between its two extractions
C16_Witness ==
  \E c, d \in Calls :
    /\ call_pc[c] = "done"
    /\ call_pc[d] = "job_done"
    /\ call_args[c].job # call_args[d].job
    /\ call_args[c].doc # call_args[d].doc
    /\ returned[c].matchedKeywords # <<>>
    /\ returned[c].missingKeywords # <<>>

\* the calls of a run without a resume file that reaches its return
FlowCallOrder == <<"get_user_profile", "scrape_job_ad", "generate_dossier", "generate", "analyze">>

RequiredNames == {FIREBASE_PROJECT_ID, GEMINI_API_KEY, PINECONE_API_KEY}

\* the variable is unset or set to the empty string
Missing(env, n) == env[n] = NoneValue \/ env[n] = <<>>

NotSetText == <<"'"," ","i","s"," ","n","o","t"," ","s","e","t">>

\* the message reads "Required environment variable '<n>' is not set"
NamesVariable(message, n) == startswith(message, RequiredPrefix \o n \o NotSetText)

\* C19: get_env_var(name, required=True) raises ValueError naming the variable
\* when it is unset or empty, and otherwise get_env_var returns the value, or
\* the default when the variable is unset; Config() raises that ValueError
\* whenever one of the three required variables is unset or empty, and
\* succeeds, with PINECONE_ENVIRONMENT None and LOG_LEVEL 'INFO' by default,
\* when all three are set
C19_AsStated ==
  /\ getenv_pc = "done" =>
       LET n == getenv_call.var_name
           d == getenv_call.default
       IN /\ (getenv_call.required /\ d = NoneValue /\ Missing(environ, n)) =>
               /\ "raised" \in DOMAIN getenv_out
               /\ getenv_out.raised = "ValueError"
               /\ NamesVariable(getenv_out.message, n)
          /\ (~getenv_call.required \/ ~Missing(environ, n)) =>
               /\ "value" \in DOMAIN getenv_out
               /\ getenv_out.value = IF environ[n] = NoneValue THEN d ELSE environ[n]
  /\ cfg_pc \in {"done", "raised"} =>
       IF \E n \in RequiredNames : Missing(environ, n)
         THEN /\ cfg_pc = "raised"
              /\ cfg_error.raised = "ValueError"
              /\ \E n \in RequiredNames :
                   Missing(environ, n) /\ NamesVariable(cfg_error.message, n)
         ELSE /\ cfg_pc = "done"
              /\ environ[PINECONE_ENVIRONMENT] = NoneValue =>
                   cfg.PINECONE_ENVIRONMENT = NoneValue
              /\ environ[LOG_LEVEL] = NoneValue => cfg.LOG_LEVEL = LevelInfo

\* the text sub occurs in the text s
Contains(s, sub) ==
  \E k \in 0..(Len(s) - Len(sub)) : SubSeq(s, k + 1, k + Len(sub)) = sub

\* the two objects agree on everything but the values of the two keys, and
\* each key is set in both or in neither
AgreeButSecrets(x, y) ==
  /\ x.FIREBASE_PROJECT_ID = y.FIREBASE_PROJECT_ID
  /\ x.DEFAULT_USER_ID = y.DEFAULT_USER_ID
  /\ x.LOG_LEVEL = y.LOG_LEVEL
  /\ x.PINECONE_ENVIRONMENT = y.PINECONE_ENVIRONMENT
  /\ (x.GEMINI_API_KEY = NoneValue) <=> (y.GEMINI_API_KEY = NoneValue)
  /\ (x.PINECONE_API_KEY = NoneValue) <=> (y.PINECONE_API_KEY = NoneValue)

\* the repr says 'Yes' or 'No' for the key, according to whether it is set
SaysWhetherSet(shown, label, key) ==
  Contains(shown, label \o (IF key = NoneValue THEN <<"'","N","o","'">> ELSE <<"'","Y","e","s","'">>) \o <<",">>)

\* C20: two Config objects that agree on the four plain fields and have each
\* key set or unset alike get the same repr, whatever the values of the keys,
\* and a repr says only 'Yes' or 'No' about a key
C20_ReprHidesSecrets ==
  /\ \A i, j \in ConfigIds :
       (repr_pc[i] = "shown" /\ repr_pc[j] = "shown" /\ AgreeButSecrets(objs[i], objs[j])) =>
         reprs[i] = reprs[j]
  /\ \A i \in ConfigIds :
       repr_pc[i] = "shown" =>
         /\ SaysWhetherSet(reprs[i], ReprGemini, objs[i].GEMINI_API_KEY)
         /\ SaysWhetherSet(reprs[i], ReprPinecone, objs[i].PINECONE_API_KEY)
         /\ objs[i].GEMINI_API_KEY # NoneValue => ~Contains(reprs[i], objs[i].GEMINI_API_KEY)
         /\ objs[i].PINECONE_API_KEY # NoneValue =>
              ~Contains(reprs[i], objs[i].PINECONE_API_KEY)

\* both reprs are made, of objects that agree but for the values of their
\* keys: the Gemini keys are set and differ, the Pinecone keys are unset
C20_Witness ==
  /\ repr_pc["a"] = "shown"
  /\ repr_pc["b"] = "shown"
  /\ AgreeButSecrets(objs["a"], objs["b"])
  /\ objs["a"].GEMINI_API_KEY # NoneValue
  /\ objs["a"].GEMINI_API_KEY # objs["b"].GEMINI_API_KEY
  /\ objs["a"].PINECONE_API_KEY = NoneValue
  /\ reprs["a"] = reprs["b"]

\* C21: analyze returns as soon as the job keyword set is found empty, so
\* line 38 is never run in a call whose job keyword set is empty
C21_AsStated ==
  \A c \in Calls :
    call_pc[c] = "doc_done" => frames[frame_of(c)].job_keywords # {}

\* C22: when the returned missingKeywords is not empty, suggestions names the
\* first min(10, n) entries of that list, in the same order, and nothing else
C22_SuggestionsNameMissing ==
  (pc = "done" /\ result.missingKeywords # <<>>) =>
    LET listed == result.missingKeywords
        k == IF Len(listed) < 10 THEN Len(listed) ELSE 10
        named == SubSeq(result.suggestions, Len(ConsiderText) + 1, Len(result.suggestions))
    IN /\ SubSeq(result.suggestions, 1, Len(ConsiderText)) = ConsiderText
       /\ SplitCommaSpace(named, <<>>) = SubSeq(listed, 1, k)

\* a result that lists twenty missing keywords, cut from more, and names ten
C22_Witness ==
  /\ pc = "done"
  /\ Len(result.missingKeywords) = 20
  /\ Cardinality(JobKeywords \ DocKeywords) > 20
  /\ Len(SplitCommaSpace(SubSeq(result.suggestions, Len(ConsiderText) + 1,
                                Len(result.suggestions)), <<>>)) = 10

\* C24: when the job keyword set is not empty, the matched and the missing
\* sets partition it, and when it has at most 20 members the two returned
\* lists together list every job keyword once
C24_Partition ==
  (pc = "done" /\ JobKeywords # {}) =>
    LET matched == matched_set(JobKeywords, DocKeywords)
        missing == missing_set(JobKeywords, DocKeywords)
    IN /\ matched \cup missing = JobKeywords
       /\ matched \cap missing = {}
       /\ Cardinality(matched) + Cardinality(missing) = Cardinality(JobKeywords)
       /\ Cardinality(JobKeywords) <= 20 =>
            /\ Elements(result.matchedKeywords) \cup Elements(result.missingKeywords)
                 = JobKeywords
            /\ Len(result.matchedKeywords) + Len(result.missingKeywords)
                 = Cardinality(JobKeywords)
            /\ NoDuplicates(result.matchedKeywords \o result.missingKeywords)

\* a result over exactly twenty job keywords, some matched and some missing
C24_Witness ==
  /\ pc = "done"
  /\ Cardinality(JobKeywords) = 20
  /\ result.matchedKeywords # <<>>
  /\ result.missingKeywords # <<>>

\* the keywords of the words added for the second call
AddedKeywords == extract_keywords(more_added)

\* C25: words added to the document that are not job keywords leave the
\* percentage and the matched and missing keywords unchanged, and words added
\* to the document never lower the percentage nor enlarge the missing set
C25_DocumentMonotone ==
  more_pc = 2 =>
    LET first == more_results[1]
        second == more_results[2]
    IN /\ AddedKeywords \cap extract_keywords(more_job) = {} =>
            /\ second.keywordMatchPercent = first.keywordMatchPercent
            /\ second.matchedKeywords = first.matchedKeywords
            /\ second.missingKeywords = first.missingKeywords
       /\ second.keywordMatchPercent >= first.keywordMatchPercent
       /\ Elements(second.missingKeywords) \subseteq Elements(first.missingKeywords)

\* both calls are made; the added words hold a job keyword the document
\* lacked and a keyword the job description lacks, and the percentage rose
C25_Witness ==
  /\ more_pc = 2
  /\ AddedKeywords \cap extract_keywords(more_job) # {}
  /\ AddedKeywords \ extract_keywords(more_job) # {}
  /\ more_results[2].keywordMatchPercent > more_results[1].keywordMatchPercent
  /\ more_results[1].matchedKeywords # <<>>

\* analyze has been called in this run of generate_application
AnalyzeCalled == "analyze" \in Elements(calls)

\* C23: whatever branch parsed the response, the document_text passed to
\* analyze has no '#' and no '*', and the job_description passed is the
\* scraped job_description, a space, and the selection_criteria or, when that
\* field is absent, nothing
C23_AnalyzeArguments ==
  AnalyzeCalled =>
    /\ "#" \notin Elements(analyze_args.document_text)
    /\ "*" \notin Elements(analyze_args.document_text)
    /\ analyze_args.job_description =
         job_data.job_description \o <<" ">>
           \o (IF "selection_criteria" \in DOMAIN job_data
                 THEN job_data.selection_criteria ELSE <<>>)

\* analyze was called after a response that opens a brace, is not JSON and
\* holds a '#', for a job without selection_criteria
C23_Witness ==
  /\ AnalyzeCalled
  /\ response_text = BrokenJsonResponse
  /\ "selection_criteria" \notin DOMAIN job_data
  /\ analyze_args.document_text # <<>>

\* scrape_job_ad has returned job data without a company_name, or with an
\* empty one or None
NoCompanyName ==
  /\ flow_pc \notin {"start", "profile"}
  /\ DOMAIN job_data # {}
  /\ \/ "company_name" \notin DOMAIN job_data
     \/ job_data.company_name = <<>>
     \/ job_data.company_name = NoneValue

\* C28 as stated: with no company_name in the scraped job data the run raises
\* ValueError, and neither generate_dossier nor the LLM nor analyze is called
\* in that run.  (Refuted: with a resume file, process_resume has called the
\* LLM before the job ad is scraped.)
C28_AsStated ==
  NoCompanyName =>
    /\ flow_pc \in {"scraped", "raised"}
    /\ flow_pc = "raised" => flow_error = "ValueError"
    /\ Elements(calls) \cap {"generate_dossier", "generate", "analyze"} = {}

\* C28, amended: with no company_name in the scraped job data the run raises
\* ValueError; generate_dossier and analyze are not called in that run, and
\* the LLM is not called after scrape_job_ad (it was called before it, once,
\* only if a resume file was given)
C28_NoCompanyNoCalls ==
  NoCompanyName =>
    /\ flow_pc \in {"scraped", "raised"}
    /\ flow_pc = "raised" => flow_error = "ValueError"
    /\ Elements(calls) \cap {"generate_dossier", "analyze"} = {}
    /\ \A i, j \in 1..Len(calls) :
         (calls[i] = "scrape_job_ad" /\ calls[j] = "generate") => j < i
    /\ ~resume_given => "generate" \notin Elements(calls)
    /\ Cardinality({j \in 1..Len(calls) : calls[j] = "generate"}) <= 1

\* the run has raised ValueError for an empty company_name
C28_Witness ==
  /\ NoCompanyName
  /\ resume_given
  /\ "generate" \in Elements(calls)
  /\ flow_pc = "raised"
  /\ flow_error = "ValueError"
  /\ "company_name" \in DOMAIN job_data
  /\ job_data.company_name = <<>>

(***************************************************************************)
(* generate_application_http (main.py, lines 352-409): the HTTP endpoint   *)
(* of the flow.  A request is its method, its Authorization header, its    *)
(* requestData form field; what auth.verify_id_token and                   *)
(* generate_application do is drawn with the request.                      *)
(***************************************************************************)
Methods == {"OPTIONS", "POST", "GET", "PUT"}

BearerPrefix == <<"B","e","a","r","e","r"," ">>

AuthHeaders ==
  {NoneValue, <<>>, <<"B","a","s","i","c"," ","a","b","c">>, <<"b","e","a","r","e","r"," ","a","b","c">>, <<"B","e","a","r","e","r"," ","a","b","c">>, <<"B","e","a","r","e","r"," ","B","e","a","r","e","r"," ","a","b","c">>}

\* auth.verify_id_token (firebase_admin) on a non-empty token returns the
\* decoded token or raises; CertificateFetchError is raised when the public
\* key certificates cannot be fetched
VerifyOutcomes == {"decoded", "InvalidIdTokenError", "ExpiredIdTokenError", "CertificateFetchError"}

\* auth.verify_id_token(id_token): an empty token is a ValueError
\* ("ID token must be a non-empty string")
verify_id_token(id_token, outcome) == IF id_token = <<>> THEN "ValueError" ELSE outcome

\* isinstance(e, auth.InvalidIdTokenError): ExpiredIdTokenError is a
\* subclass of InvalidIdTokenError
is_InvalidIdTokenError(e) == e \in {"InvalidIdTokenError", "ExpiredIdTokenError"}

\* s.split(sep)[1] for s starting with sep: the text between the first sep
\* and the next one (or the end of s)
split_1(s, sep) ==
  LET rest == SubSeq(s, Len(sep) + 1, Len(s))
      hits == {i \in 1..(Len(rest) - Len(sep) + 1) : SubSeq(rest, i, i + Len(sep) - 1) = sep}
  IN IF hits = {} THEN rest
     ELSE SubSeq(rest, 1, (CHOOSE i \in hits : \A j \in hits : i <= j) - 1)

AllFieldsText == <<"{","\"","j","o","b","_","a","d","_","u","r","l","\"",":","\"","u","\"",",","\"","t","h","e","m","e","_","i","d","\"",":","\"","t","\"",",","\"","t","o","n","e","_","o","f","_","v","o","i","c","e","\"",":","\"","v","\"","}">>

TwoFieldsText == <<"{","\"","j","o","b","_","a","d","_","u","r","l","\"",":","\"","u","\"",",","\"","t","h","e","m","e","_","i","d","\"",":","\"","t","\"","}">>

NoFieldsText == <<"{","}">>

ArrayText == <<"[","\"","j","o","b","_","a","d","_","u","r","l","\"",",","\"","t","h","e","m","e","_","i","d","\"",",","\"","t","o","n","e","_","o","f","_","v","o","i","c","e","\"","]">>

NumberText == <<"7">>

BrokenText == <<"{","o","o","p","s">>

RequestDatas ==
  {NoneValue, <<>>, AllFieldsText, TwoFieldsText, NoFieldsText, ArrayText, NumberText, BrokenText}

\* json.loads on the requestData texts of the model
json_loads(str) ==
  CASE str = AllFieldsText -> [kind |-> "object", members |-> {"job_ad_url", "theme_id", "tone_of_voice"}]
    [] str = TwoFieldsText -> [kind |-> "object", members |-> {"job_ad_url", "theme_id"}]
    [] str = NoFieldsText -> [kind |-> "object", members |-> {}]
    [] str = ArrayText -> [kind |-> "array", members |-> {"job_ad_url", "theme_id", "tone_of_voice"}]
    [] str = NumberText -> [kind |-> "number", members |-> {}]
    [] OTHER -> Raised("JSONDecodeError")

RequiredFields == {"job_ad_url", "theme_id", "tone_of_voice"}

\* all(k in request_data for k in [...]): `in` is key membership for a
\* dict, item membership for a list, a TypeError for a number
has_required_fields(request_data) ==
  IF request_data.kind = "number" THEN Raised("TypeError")
  ELSE [value |-> RequiredFields \subseteq request_data.members]

FlowOutcomes == {"result", "ValueError", "Exception"}

\* asyncio.run(generate_application(request_data, resume_file)): a list has
\* no request['job_ad_url']
run_flow(request_data, outcome) ==
  IF request_data.kind = "object" THEN outcome ELSE "TypeError"

Response(status, body, started) ==
  [status |-> status, body |-> body, escaped |-> "", started |-> started]

Escaped(exception) ==
  [status |-> 0, body |-> "", escaped |-> exception, started |-> FALSE]

UnexpectedError(started) ==
  Response(500, "{\"error\": \"An unexpected error occurred.\"}", started)

\* lines 381-409: the try block and its except Exception
handle_request_data(data_str, flow) ==
  IF falsy(data_str) THEN Response(400, "{\"error\": \"Missing requestData\"}", FALSE)
  ELSE LET request_data == json_loads(data_str)
       IN IF "raised" \in DOMAIN request_data THEN UnexpectedError(FALSE)
          ELSE LET complete == has_required_fields(request_data)
               IN IF "raised" \in DOMAIN complete THEN UnexpectedError(FALSE)
                  ELSE IF ~complete.value
                       THEN Response(400, "{\"error\": \"Missing required fields\"}", FALSE)
                       ELSE IF run_flow(request_data, flow) = "result"
                            THEN Response(200, "result", TRUE)
                            ELSE UnexpectedError(TRUE)

generate_application_http(method, auth_header, verify, data_str, flow) ==
  IF method = "OPTIONS" THEN Response(204, "", FALSE)
  ELSE IF method # "POST" THEN Response(405, "Method not allowed", FALSE)
  ELSE IF falsy(auth_header) \/ ~startswith(auth_header, BearerPrefix)
       THEN Response(401, "Unauthorized", FALSE)
       ELSE LET id_token == split_1(auth_header, BearerPrefix)
                decoded_token == verify_id_token(id_token, verify)
            IN IF is_InvalidIdTokenError(decoded_token) THEN Response(401, "Invalid token", FALSE)
               ELSE IF decoded_token # "decoded" THEN Escaped(decoded_token)
               ELSE handle_request_data(data_str, flow)

InitHttp ==
  /\ req_method \in Methods
  /\ req_authorization \in AuthHeaders
  /\ verify_outcome \in VerifyOutcomes
  /\ req_requestData \in RequestDatas
  /\ flow_outcome \in FlowOutcomes
  /\ http_out = [status |-> 0, body |-> "", escaped |-> "", started |-> FALSE]
  /\ http_pc = "request"
  /\ OffExcept("http")

\* the handler, from the request to the response (or the escaped exception)
HandleRequest ==
  /\ http_pc = "request"
  /\ http_out' = generate_application_http(req_method, req_authorization, verify_outcome,
                                           req_requestData, flow_outcome)
  /\ http_pc' = "done"
  /\ UNCHANGED <<req_method, req_authorization, verify_outcome, req_requestData, flow_outcome>>
  /\ UnchangedExcept("http")

NextHttp == HandleRequest

SpecHttp == InitHttp /\ [][NextHttp]_vars

\* the token part of the Authorization header, when it starts with 'Bearer '
BearerToken == split_1(req_authorization, BearerPrefix)

HasBearer == ~falsy(req_authorization) /\ startswith(req_authorization, BearerPrefix)

TokenAccepted == HasBearer /\ BearerToken # <<>> /\ verify_outcome = "decoded"

\* missing, malformed, invalid or expired token
TokenRejected ==
  \/ ~HasBearer
  \/ BearerToken = <<>>
  \/ verify_outcome \in {"InvalidIdTokenError", "ExpiredIdTokenError"}

RequestDataParsed == ~falsy(req_requestData) /\ "raised" \notin DOMAIN json_loads(req_requestData)

RequestDataComplete ==
  /\ RequestDataParsed
  /\ RequiredFields \subseteq json_loads(req_requestData).members

\* C26 as stated: the flow runs only for a POST with an accepted Bearer token
\* and a requestData holding the three fields; OPTIONS gets 204, another
\* non-POST method 405, a missing, malformed, invalid or expired token 401,
\* missing requestData or fields 400, each without the flow being started
C26_AsStated ==
  http_pc = "done" =>
    /\ http_out.started => (req_method = "POST" /\ TokenAccepted /\ RequestDataComplete)
    /\ req_method = "OPTIONS" => (http_out.status = 204 /\ ~http_out.started)
    /\ req_method \notin {"OPTIONS", "POST"} => (http_out.status = 405 /\ ~http_out.started)
    /\ (req_method = "POST" /\ TokenRejected) => (http_out.status = 401 /\ ~http_out.started)
    /\ (req_method = "POST" /\ TokenAccepted
          /\ (falsy(req_requestData) \/ (RequestDataParsed /\ ~RequestDataComplete)))
         => (http_out.status = 400 /\ ~http_out.started)

\* C27 as stated: every request gets a response and no exception escapes;
\* a failure of token verification, request parsing or the flow gives 401,
\* 400 or 500, and the body of a 500 is the generic message
C27_AsStated ==
  http_pc = "done" =>
    /\ http_out.escaped = ""
    /\ http_out.status \in {200, 204, 405, 401, 400, 500}
    /\ http_out.status = 200 =>
         (TokenAccepted /\ RequestDataComplete /\ flow_outcome = "result")
    /\ http_out.status = 500 => http_out.body = "{\"error\": \"An unexpected error occurred.\"}"

(***************************************************************************)
(* job_scout (main.py, lines 168-233; the same text is in                   *)
(* jobs/job_scout.py, lines 28-94): one step per awaited Gmail or Calendar *)
(* call, each of which returns or raises.                                  *)
(***************************************************************************)
target_senders ==
  <<"noreply@s.seek.com.au", "noreply@ethicaljobs.com.au", "donotreply@jora.com",
    "support@careers.vic.gov.au">>

\* `sub in s` for strings
contains(s, sub) ==
  \E i \in 1..(Len(s) - Len(sub) + 1) : SubSeq(s, i, i + Len(sub) - 1) = sub

OpportunityKeywords == {<<"j","o","b"," ","a","l","e","r","t">>, <<"n","e","w"," ","j","o","b">>, <<"o","p","p","o","r","t","u","n","i","t","i","e","s">>}

\* _extract_job_opportunities (lines 262-280): at most one opportunity, for
\* a subject holding one of the keywords
extract_job_opportunities(email) ==
  IF \E keyword \in OpportunityKeywords : contains(lower(email.subject), keyword)
    THEN <<[job_title |-> email.subject, company |-> "Unknown"]>>
    ELSE <<>>

AlertSubject == <<"J","o","b"," ","A","l","e","r","t",":"," ","n","u","r","s","e">>

PlainSubject == <<"Y","o","u","r"," ","i","n","v","o","i","c","e">>

NewJobSubject == <<"A"," ","n","e","w"," ","j","o","b">>

OpportunitiesSubject == <<"O","P","P","O","R","T","U","N","I","T","I","E","S">>

Email(id, subject) == [id |-> id, subject |-> subject]

\* the unread emails of the four senders, in the order of target_senders
Inboxes ==
  { <<<<>>, <<>>, <<>>, <<>>>>,
    <<<<Email("m1", AlertSubject), Email("m2", PlainSubject)>>, <<>>,
      <<Email("m3", NewJobSubject)>>, <<>>>>,
    <<<<Email("m1", PlainSubject)>>, <<Email("m2", AlertSubject)>>, <<>>,
      <<Email("m3", OpportunitiesSubject), Email("m4", NewJobSubject)>>>> }

EmailsOf(inbox) == UNION {{inbox[i][j] : j \in 1..Len(inbox[i])} : i \in 1..Len(inbox)}

\* messages of the exceptions the Gmail and Calendar calls raise in the model
ErrorMessages == {<<"q","u","o","t","a">>, <<"t","i","m","e","d"," ","o","u","t">>}

CalendarEvent == <<"e","v","e","n","t">>

Returned(value) == [raised |-> FALSE, value |-> value, message |-> <<>>]

Failed(message) == [raised |-> TRUE, value |-> <<>>, message |-> message]

\* what an awaited call can do
GmailOutcomes == {Returned(<<>>)} \cup {Failed(m) : m \in ErrorMessages}

CalendarOutcomes ==
  {Returned(CalendarEvent), Returned(NoneValue)} \cup {Failed(m) : m \in ErrorMessages}

Call(name, arg, outcome) ==
  [call |-> name, arg |-> arg, raised |-> outcome.raised, value |-> outcome.value,
   message |-> outcome.message]

\* mutant of job_scout_except: the counters reached so far are reported
job_scout_except_counts(processed, events, message) ==
  [processedEmails |-> processed, eventsCreated |-> events, status |-> <<"e","r","r","o","r",":"," ">> \o message]

\* lines 222-233: the dict returned by the except branch
job_scout_except(processed, events, message) ==
  [processedEmails |-> 0, eventsCreated |-> 0, status |-> <<"e","r","r","o","r",":"," ">> \o message]

\* lines 216-220
job_scout_success(processed, events) ==
  [processedEmails |-> processed, eventsCreated |-> events, status |-> <<"s","u","c","c","e","s","s">>]

InitScout ==
  /\ scout_inbox \in Inboxes
  /\ scout_unread = {e.id : e \in EmailsOf(scout_inbox)}
  /\ scout_sender = 1
  /\ scout_emails = <<>>
  /\ scout_email = 0
  /\ scout_opps = <<>>
  /\ scout_opp = 0
  /\ processed_emails = 0
  /\ events_created = 0
  /\ scout_calls = <<>>
  /\ scout_return = [processedEmails |-> -1, eventsCreated |-> -1, status |-> <<>>]
  /\ scout_pc = "sender"
  /\ OffExcept("scout")

\* line 195: emails = await gmail_client.get_unread_emails(sender)
GetUnreadEmails ==
  /\ scout_pc = "sender"
  /\ scout_sender <= Len(target_senders)
  /\ \E outcome \in GmailOutcomes :
       /\ scout_calls' = Append(scout_calls,
                                Call("get_unread_emails", target_senders[scout_sender], outcome))
       /\ IF outcome.raised
            THEN /\ scout_return' = job_scout_except(processed_emails, events_created,
                                                     outcome.message)
                 /\ scout_pc' = "done"
                 /\ UNCHANGED <<scout_emails, scout_email>>
            ELSE /\ scout_emails' = SelectSeq(scout_inbox[scout_sender],
                                              LAMBDA e : e.id \in scout_unread)
                 /\ scout_email' = 1
                 /\ scout_pc' = "email"
                 /\ UNCHANGED scout_return
  /\ UNCHANGED <<scout_inbox, scout_unread, scout_sender, scout_opps, scout_opp,
                 processed_emails, events_created>>
  /\ UnchangedExcept("scout")

\* lines 197-199: the next email of the list and its opportunities
ExtractJobOpportunities ==
  /\ scout_pc = "email"
  /\ scout_email <= Len(scout_emails)
  /\ scout_opps' = extract_job_opportunities(scout_emails[scout_email])
  /\ scout_opp' = 1
  /\ scout_pc' = "opportunity"
  /\ UNCHANGED <<scout_inbox, scout_unread, scout_sender, scout_emails, scout_email,
                 processed_emails, events_created, scout_calls, scout_return>>
  /\ UnchangedExcept("scout")

\* line 193: the list of emails is exhausted, on to the next sender
NextSender ==
  /\ scout_pc = "email"
  /\ scout_email > Len(scout_emails)
  /\ scout_sender' = scout_sender + 1
  /\ scout_pc' = "sender"
  /\ UNCHANGED <<scout_inbox, scout_unread, scout_emails, scout_email, scout_opps, scout_opp,
                 processed_emails, events_created, scout_calls, scout_return>>
  /\ UnchangedExcept("scout")

\* lines 202-210: await calendar_client.create_reminder_event(...)
CreateReminderEvent ==
  /\ scout_pc = "opportunity"
  /\ scout_opp <= Len(scout_opps)
  /\ \E outcome \in CalendarOutcomes :
       /\ scout_calls' = Append(scout_calls,
                                Call("create_reminder_event", scout_emails[scout_email].id,
                                     outcome))
       /\ IF outcome.raised
            THEN /\ scout_return' = job_scout_except(processed_emails, events_created,
                                                     outcome.message)
                 /\ scout_pc' = "done"
                 /\ UNCHANGED <<scout_opp, events_created>>
            ELSE /\ events_created' = IF falsy(outcome.value) THEN events_created
                                                              ELSE events_created + 1
                 /\ scout_opp' = scout_opp + 1
                 /\ UNCHANGED <<scout_return, scout_pc>>
  /\ UNCHANGED <<scout_inbox, scout_unread, scout_sender, scout_emails, scout_email,
                 scout_opps, processed_emails>>
  /\ UnchangedExcept("scout")

\* lines 212-214: await gmail_client.mark_as_read(email['id'])
MarkAsRead ==
  /\ scout_pc = "opportunity"
  /\ scout_opp > Len(scout_opps)
  /\ \E outcome \in GmailOutcomes :
       /\ scout_calls' = Append(scout_calls,
                                Call("mark_as_read", scout_emails[scout_email].id, outcome))
       /\ IF outcome.raised
            THEN /\ scout_return' = job_scout_except(processed_emails, events_created,
                                                     outcome.message)
                 /\ scout_pc' = "done"
                 /\ UNCHANGED <<scout_unread, scout_email, processed_emails>>
            ELSE /\ scout_unread' = scout_unread \ {scout_emails[scout_email].id}
                 /\ processed_emails' = processed_emails + 1
                 /\ scout_email' = scout_email + 1
                 /\ scout_pc' = "email"
                 /\ UNCHANGED scout_return
  /\ UNCHANGED <<scout_inbox, scout_sender, scout_emails, scout_opps, scout_opp,
                 events_created>>
  /\ UnchangedExcept("scout")

\* lines 216-220: every sender is done
ReturnSuccess ==
  /\ scout_pc = "sender"
  /\ scout_sender > Len(target_senders)
  /\ scout_return' = job_scout_success(processed_emails, events_created)
  /\ scout_pc' = "done"
  /\ UNCHANGED <<scout_inbox, scout_unread, scout_sender, scout_emails, scout_email,
                 scout_opps, scout_opp, processed_emails, events_created, scout_calls>>
  /\ UnchangedExcept("scout")

NextScout ==
  \/ GetUnreadEmails
  \/ ExtractJobOpportunities
  \/ NextSender
  \/ CreateReminderEvent
  \/ MarkAsRead
  \/ ReturnSuccess

SpecScout == InitScout /\ [][NextScout]_vars

\* the calls one email asks for: a reminder per opportunity, then the mark
CallsOfEmail(email) ==
  [k \in 1..Len(extract_job_opportunities(email)) |-> <<"create_reminder_event", email.id>>]
    \o <<<<"mark_as_read", email.id>>>>

RECURSIVE CallsOfEmails(_)
CallsOfEmails(emails) ==
  IF emails = <<>> THEN <<>>
  ELSE CallsOfEmail(Head(emails)) \o CallsOfEmails(Tail(emails))

RECURSIVE CallsFrom(_, _)
\* the calls of a run in which nothing raises, from sender number i on
CallsFrom(inbox, i) ==
  IF i > Len(target_senders) THEN <<>>
  ELSE <<<<"get_unread_emails", target_senders[i]>>>> \o CallsOfEmails(inbox[i])
         \o CallsFrom(inbox, i + 1)

CallsMade == [p \in 1..Len(scout_calls) |-> <<scout_calls[p].call, scout_calls[p].arg>>]

ScoutFailed == \E p \in 1..Len(scout_calls) : scout_calls[p].raised

\* C29: the calls are made sender by sender and email by email in list
\* order, an email is marked as read only after a reminder was awaited for
\* each of its opportunities, and a run returning "success" reports the
\* number of mark_as_read calls and of truthy reminder events
C29_ScoutOrder ==
  /\ Len(CallsMade) <= Len(CallsFrom(scout_inbox, 1))
  /\ CallsMade = SubSeq(CallsFrom(scout_inbox, 1), 1, Len(CallsMade))
  /\ \A p \in 1..Len(scout_calls) :
       scout_calls[p].call = "mark_as_read" =>
         \A e \in EmailsOf(scout_inbox) :
           e.id = scout_calls[p].arg =>
             Cardinality({q \in 1..(p - 1) :
                            /\ scout_calls[q].call = "create_reminder_event"
                            /\ scout_calls[q].arg = e.id
                            /\ ~scout_calls[q].raised})
               = Len(extract_job_opportunities(e))
  /\ (scout_pc = "done" /\ scout_return.status = <<"s","u","c","c","e","s","s">>) =>
       /\ scout_return.processedEmails
            = Cardinality({p \in 1..Len(scout_calls) : scout_calls[p].call = "mark_as_read"})
       /\ scout_return.eventsCreated
            = Cardinality({p \in 1..Len(scout_calls) :
                             /\ scout_calls[p].call = "create_reminder_event"
                             /\ ~scout_calls[p].raised
                             /\ scout_calls[p].value \notin {NoneValue, <<>>}})

C29_Witness ==
  /\ scout_pc = "done"
  /\ scout_return.status = <<"s","u","c","c","e","s","s">>
  /\ scout_return.processedEmails = 4
  /\ scout_return.eventsCreated = 2
  /\ \E p \in 1..Len(scout_calls) :
       scout_calls[p].call = "create_reminder_event" /\ scout_calls[p].value = NoneValue

\* C30: a run always ends with a returned dict; when a Gmail or Calendar
\* call raised, the dict has both counters 0 and status "error: <message>",
\* whatever was marked and created before, and the email in hand is unread
C30_ErrorResult ==
  /\ ScoutFailed => scout_pc = "done"
  /\ scout_pc = "done" =>
       /\ scout_return.processedEmails >= 0
       /\ ~ScoutFailed => scout_return.status = <<"s","u","c","c","e","s","s">>
       /\ ScoutFailed =>
            LET failed == scout_calls[Len(scout_calls)]
            IN /\ failed.raised
               /\ scout_return = [processedEmails |-> 0, eventsCreated |-> 0,
                                  status |-> <<"e","r","r","o","r",":"," ">> \o failed.message]
               /\ failed.call \in {"create_reminder_event", "mark_as_read"} =>
                    failed.arg \in scout_unread

C30_Witness ==
  /\ scout_pc = "done"
  /\ ScoutFailed
  /\ processed_emails >= 1
  /\ events_created >= 1
  /\ scout_calls[Len(scout_calls)].call = "create_reminder_event"
  /\ scout_return.processedEmails = 0

====
